---------------------------- MODULE Spec2Model ----------------------------
(***************************************************************************)
(* A model of paperview's PDF image pipeline                               *)
(* (src/paperview/retrieval/pdf_extraction.py): the splicing of raster     *)
(* tiles into logical images (splice_images and its helpers) and the       *)
(* numbering of the images in reading order (order_images).                *)
(*                                                                         *)
(* An image is the dictionary pdfplumber gives for a page image, with the  *)
(* keys the code reads and writes, plus 'image', the PIL bitmap.  Python   *)
(* lists are sequences; a position of a list stands for the object stored  *)
(* there (Python compares dictionaries by value in `in` and `remove`, and  *)
(* the model does the same, so the two notions stay apart).  Indices are   *)
(* 1-based here and 0-based in the code: row r of a bitmap is the code's   *)
(* row r-1.                                                                *)
(***************************************************************************)
EXTENDS Integers, Sequences, FiniteSets, TLC

VARIABLES
    image_list,          \* the argument of splice_images: the dictionaries of its tiles
    new_image_list,      \* splice_images' working list, then its result
    candidates,          \* splice_images' candidates: pairs of positions of new_image_list
    parts,               \* parts[k]: the positions of image_list whose tiles make up new_image_list[k]
    last,                \* the last merge: the function called, its arguments, its result
    merges,              \* the number of loop iterations run so far
    ordered_image_list,  \* order_images' result
    order_src,           \* order_src[k]: the position in order_images' argument of its k-th result
    words,               \* the word table passed to word_df_to_line_df
    lines,               \* the line table: word_df_to_line_df's result, extract_figure_labels' argument
    image,               \* the image extract_figure_labels is called for
    labels,              \* extract_figure_labels' result
    distance,            \* get_distance_from_line_to_image's result, and the row it was called on
    interval,            \* the argument of validate_interval
    valid,               \* validate_interval's result
    collection,          \* the articles the server holds for the interval
    cursor,              \* get_all_content_details_by_interval's cursor
    all_results,         \* get_all_content_details_by_interval's all_results
    requests,            \* the cursors of the requests sent so far
    overview_cache,      \* the cache of overviews: doi -> html, or None
    article_cache,       \* the cache of articles: doi -> article, or None
    calls,               \* the calls of the two jobs: the function, where it stands, its doi, what it holds
    retrieved,           \* retrieved[f][doi]: how often function f retrieved the article
    generated,           \* generated[doi]: how often its overview was generated
    pc                   \* where the pipeline stands

vars == <<image_list, new_image_list, candidates, parts, last, merges,
          ordered_image_list, order_src, words, lines, image, labels, distance,
          interval, valid, collection, cursor, all_results, requests,
          overview_cache, article_cache, calls, retrieved, generated, pc>>

\* The state of the image stages, and the state of the text stages.
imagevars == <<image_list, new_image_list, candidates, parts, last, merges,
               ordered_image_list, order_src>>
textvars == <<words, lines, image, labels, distance>>

\* The state of validate_interval, of the paging loop and of the overview jobs.
intervalvars == <<interval, valid>>
pagingvars == <<collection, cursor, all_results, requests>>
jobvars == <<overview_cache, article_cache, calls, retrieved, generated>>
apivars == <<interval, valid, collection, cursor, all_results, requests,
             overview_cache, article_cache, calls, retrieved, generated>>

\* The functions of the bioRxiv interface and the overview jobs have not run.
NoApi ==
    /\ interval = <<>>
    /\ valid = "none"
    /\ collection = <<>>
    /\ cursor = 0
    /\ all_results = <<>>
    /\ requests = <<>>
    /\ overview_cache = <<>>
    /\ article_cache = <<>>
    /\ calls = <<>>
    /\ retrieved = <<>>
    /\ generated = <<>>

---------------------------------------------------------------------------
(* Bounds of the model.                                                    *)

\* The longest list handed to splice_images.
MaxTiles == 3
\* The height of a page, in the units of the bounding boxes.
PageHeight == 4
\* Pixel values are 0..NumColours-1; 0 is the black Image.new fills with.
NumColours == 3

Pages == {1, 2}
Lefts == {0, 1}
Rights == {1, 2}
Tops == {0, 1}
Extents == {1, 2}

---------------------------------------------------------------------------
(* Arithmetic and lists.                                                   *)

abs(x) == IF x < 0 THEN -x ELSE x

Min2(a, b) == IF a <= b THEN a ELSE b

Max2(a, b) == IF a >= b THEN a ELSE b

---------------------------------------------------------------------------
(* Bitmaps: PIL images of size (width, height); pix[r][c] is the pixel of  *)
(* row r, column c.                                                        *)

\* Image.new('RGB', (w, h)): every pixel black.
ImageNew(w, h) == [width |-> w, height |-> h,
                   pix |-> [r \in 1..h |-> [c \in 1..w |-> 0]]]

\* dst.paste(src, (x, y)): src's pixels land at offset (x, y); what falls
\* outside dst is clipped, what src does not cover keeps dst's pixel.
ImagePaste(dst, src, x, y) ==
    [dst EXCEPT !.pix =
        [r \in 1..dst.height |->
            [c \in 1..dst.width |->
                IF /\ r > y /\ r <= y + src.height
                   /\ c > x /\ c <= x + src.width
                THEN src.pix[r - y][c - x]
                ELSE dst.pix[r][c]]]]

\* A bitmap of the inputs: w x h pixels, no two neighbours alike.
Bitmap(w, h, seed) ==
    [width |-> w, height |-> h,
     pix |-> [r \in 1..h |-> [c \in 1..w |-> (seed + r + 2 * c) % NumColours]]]

---------------------------------------------------------------------------
(* The image dictionaries of the inputs, as extract_all builds them: the   *)
(* bounding box x0, x1, top, bottom measured from the page's top left, y0  *)
(* and y1 measured from the page's bottom, doctop from the document's top, *)
(* and the bitmap of the cropped page.                                     *)

Tile(p, x, t, w, h, bmp) ==
    [page_number |-> p,
     x0 |-> x, x1 |-> x + w,
     top |-> t, bottom |-> t + h,
     y0 |-> PageHeight - (t + h), y1 |-> PageHeight - t,
     doctop |-> (p - 1) * PageHeight + t,
     width |-> w, height |-> h,
     image |-> bmp]

\* The tiles of the pipeline's inputs: one pixel per unit of the bounding box.
PageTile(p, x, t, w, h) == Tile(p, x, t, w, h, Bitmap(w, h, x + t))

\* The tiles of the lists splice_images is run on: the tiles of the first
\* page whose right edge x1 is on the page, and two tiles of the second page.
TileUniverse ==
    {tile \in {PageTile(1, x, t, w, h) :
                  x \in Lefts, t \in Tops, w \in Extents, h \in Extents} :
        tile.x1 \in Rights}
    \cup {PageTile(2, 0, t, 1, 1) : t \in Tops}

\* The tiles the pair functions are tried on: the bitmap's size is free of
\* the bounding box (the crop is rendered at another resolution and rounded),
\* so that it is the box, or the box one pixel wider, or one pixel higher.
PairUniverse ==
    {Tile(p, x, t, w, h, Bitmap(w + d[1], h + d[2], p)) :
        p \in Pages, x \in Lefts, t \in Tops, w \in Extents, h \in Extents,
        d \in {<<0, 0>>, <<1, 0>>, <<0, 1>>}}

---------------------------------------------------------------------------
(* identify_images_to_vertically_splice, identify_images_to_horizontally_  *)
(* splice.  A candidate is a pair of positions of the list, in the order   *)
(* of the tuple the code appends.                                          *)

\* The (i, j) of the two nested loops, in the order the loops visit them.
LoopPairs(n) == [k \in 1..(n * n) |-> <<((k - 1) \div n) + 1, ((k - 1) % n) + 1>>]

\* A slip: the page of the two images is not compared.
VerticalTestAnyPage(lst, i, j) ==
    /\ i # j
    /\ abs(lst[i].width - lst[j].width) < 1
    /\ abs(lst[i].top - lst[j].bottom) < 1

\* A slip: the widths of the two images are not compared.
VerticalTestAnyWidth(lst, i, j) ==
    /\ i # j
    /\ lst[i].page_number = lst[j].page_number
    /\ abs(lst[i].top - lst[j].bottom) < 1

VerticalTest(lst, i, j) ==
    /\ i # j
    /\ lst[i].page_number = lst[j].page_number
    /\ abs(lst[i].width - lst[j].width) < 1
    /\ abs(lst[i].top - lst[j].bottom) < 1

\* A slip: the tuple appended as (image1, image2), as the horizontal scan does.
identify_vertically_image1_first(lst) ==
    LET hit(p) == VerticalTest(lst, p[1], p[2])
        found == SelectSeq(LoopPairs(Len(lst)), hit)
    IN  [k \in 1..Len(found) |-> <<found[k][1], found[k][2]>>]

identify_images_to_vertically_splice(lst) ==
    LET hit(p) == VerticalTest(lst, p[1], p[2])
        found == SelectSeq(LoopPairs(Len(lst)), hit)
    IN  [k \in 1..Len(found) |-> <<found[k][2], found[k][1]>>]

\* A slip: the heights of the two images are not compared.
HorizontalTestAnyHeight(lst, i, j) ==
    /\ i # j
    /\ lst[i].page_number = lst[j].page_number
    /\ abs(lst[i].x1 - lst[j].x0) < 1

\* A slip: only the first image of the list tried as the left piece.
HorizontalTestFirstOnly(lst, i, j) ==
    /\ i = 1
    /\ i # j
    /\ lst[i].page_number = lst[j].page_number
    /\ abs(lst[i].height - lst[j].height) < 1
    /\ abs(lst[i].x1 - lst[j].x0) < 1

HorizontalTest(lst, i, j) ==
    /\ i # j
    /\ lst[i].page_number = lst[j].page_number
    /\ abs(lst[i].height - lst[j].height) < 1
    /\ abs(lst[i].x1 - lst[j].x0) < 1

identify_images_to_horizontally_splice(lst) ==
    LET hit(p) == HorizontalTest(lst, p[1], p[2])
        found == SelectSeq(LoopPairs(Len(lst)), hit)
    IN  [k \in 1..Len(found) |-> <<found[k][1], found[k][2]>>]

---------------------------------------------------------------------------
(* vertically_splice_image_pair, horizontally_splice_image_pair.           *)

\* A slip: the bottom bitmap pasted at its own height instead of the top's.
vertically_splice_wrong_offset(top_image, bottom_image) ==
    LET top_image_height == top_image.image.height
        top_image_width == top_image.image.width
        bottom_image_height == bottom_image.image.height
        blank == ImageNew(top_image_width, top_image_height + bottom_image_height)
        pasted == ImagePaste(ImagePaste(blank, top_image.image, 0, 0),
                             bottom_image.image, 0, bottom_image_height)
    IN  [top_image EXCEPT
            !.y0 = bottom_image.y0,
            !.y1 = top_image.y1,
            !.height = top_image.height + top_image.height,
            !.top = top_image.top,
            !.bottom = bottom_image.bottom,
            !.doctop = bottom_image.doctop,
            !.image = pasted]

vertically_splice_image_pair(top_image, bottom_image) ==
    LET top_image_height == top_image.image.height
        top_image_width == top_image.image.width
        bottom_image_height == bottom_image.image.height
        blank == ImageNew(top_image_width, top_image_height + bottom_image_height)
        pasted == ImagePaste(ImagePaste(blank, top_image.image, 0, 0),
                             bottom_image.image, 0, top_image_height)
    IN  [top_image EXCEPT
            !.y0 = bottom_image.y0,
            !.y1 = top_image.y1,
            !.height = top_image.height + top_image.height,
            !.top = top_image.top,
            !.bottom = bottom_image.bottom,
            !.doctop = bottom_image.doctop,
            !.image = pasted]

\* A slip: the width doubled, as the vertical merge does with the height.
horizontally_splice_doubled_width(left_image, right_image) ==
    LET left_image_height == left_image.image.height
        left_image_width == left_image.image.width
        right_image_width == right_image.image.width
        blank == ImageNew(left_image_width + right_image_width, left_image_height)
        pasted == ImagePaste(ImagePaste(blank, left_image.image, 0, 0),
                             right_image.image, left_image_width, 0)
    IN  [left_image EXCEPT
            !.x0 = left_image.x0,
            !.x1 = right_image.x1,
            !.width = left_image.width + left_image.width,
            !.image = pasted]

horizontally_splice_image_pair(left_image, right_image) ==
    LET left_image_height == left_image.image.height
        left_image_width == left_image.image.width
        right_image_width == right_image.image.width
        blank == ImageNew(left_image_width + right_image_width, left_image_height)
        pasted == ImagePaste(ImagePaste(blank, left_image.image, 0, 0),
                             right_image.image, left_image_width, 0)
    IN  [left_image EXCEPT
            !.x0 = left_image.x0,
            !.x1 = right_image.x1,
            !.width = left_image.width + right_image.width,
            !.image = pasted]

---------------------------------------------------------------------------
(* list.remove, as splice_images uses it.  The two removals of an          *)
(* iteration are told in the positions of the list as it is after the      *)
(* append: the second removal works on the list without the position the   *)
(* first one deleted.                                                      *)

\* A slip: every position holding a value equal to x is deleted (a filter
\* in place of remove).
RemovedPositionsAllEqual(lst, gone, x) ==
    {k \in 1..Len(lst) : k \notin gone /\ lst[k] = x}

\* The positions `if x in lst: lst.remove(x)` deletes from lst without the
\* positions gone: the first position left that holds a value equal to x,
\* when there is one.
RemovedPositions(lst, gone, x) ==
    LET equal == {k \in 1..Len(lst) : k \notin gone /\ lst[k] = x}
    IN  IF equal = {} THEN {}
        ELSE {CHOOSE k \in equal : \A m \in equal : k <= m}

\* lst from position k on without the positions of P, the others in their order.
RECURSIVE DropFrom(_, _, _)
DropFrom(lst, P, k) ==
    IF k > Len(lst) THEN <<>>
    ELSE (IF k \in P THEN <<>> ELSE <<lst[k]>>) \o DropFrom(lst, P, k + 1)

\* lst without the positions of P.
DropPositions(lst, P) == DropFrom(lst, P, 1)

\* A slip: candidate[1] is left in the list.
IterationOnKeepingSecond(lst, prt, a, b, new_image, extra) ==
    LET lst1 == Append(lst, new_image)
        P1 == RemovedPositions(lst1, {}, lst[a])
    IN  <<DropPositions(lst1, P1), DropPositions(Append(prt, extra), P1)>>

\* One iteration of a loop of splice_images on the list lst, for the
\* candidate <<a, b>> (positions of lst) merged into new_image: the image is
\* appended, then candidate[0] and candidate[1] are removed by value.  prt
\* is any list kept in step with lst, extra its entry for new_image.
IterationOn(lst, prt, a, b, new_image, extra) ==
    LET lst1 == Append(lst, new_image)
        P1 == RemovedPositions(lst1, {}, lst[a])
        P2 == RemovedPositions(lst1, P1, lst[b])
    IN  <<DropPositions(lst1, P1 \cup P2), DropPositions(Append(prt, extra), P1 \cup P2)>>

---------------------------------------------------------------------------
(* order_images.                                                           *)

\* A slip: x0 left out of the key.
SortKeyWithoutX0(img) == <<img.page_number, img.y0, 0>>

\* The key of sorted(..., key=lambda x: (x['page_number'], x['y0'], x['x0'])).
SortKey(img) == <<img.page_number, img.y0, img.x0>>

\* Python's order of tuples.
TupleLess(k1, k2) ==
    \/ k1[1] < k2[1]
    \/ k1[1] = k2[1] /\ k1[2] < k2[2]
    \/ k1[1] = k2[1] /\ k1[2] = k2[2] /\ k1[3] < k2[3]

\* sorted() is stable: position i goes behind every position already placed
\* whose key is not greater than its own.
InsertStable(lst, sorted, i) ==
    LET before == Cardinality({m \in 1..Len(sorted) :
                      ~TupleLess(SortKey(lst[i]), SortKey(lst[sorted[m]]))})
    IN  SubSeq(sorted, 1, before) \o <<i>> \o SubSeq(sorted, before + 1, Len(sorted))

RECURSIVE SortedPrefix(_, _)
SortedPrefix(lst, n) ==
    IF n = 0 THEN <<>> ELSE InsertStable(lst, SortedPrefix(lst, n - 1), n)

\* The positions of lst in the order sorted() returns their images.
SortedPositions(lst) == SortedPrefix(lst, Len(lst))

\* image['image_number'] = n
WithImageNumber(img, n) ==
    [f \in DOMAIN img \cup {"image_number"} |->
        IF f = "image_number" THEN n ELSE img[f]]

\* A slip: the numbering started at 0.
NumberAtFromZero(ii) == ii

\* The number enumerate() gives the ii-th image of the sorted list (ii from 0).
NumberAt(ii) == ii + 1

\* order_images(lst): the sorted list, each dictionary given its number.
order_images(lst) ==
    LET src == SortedPositions(lst)
    IN  [k \in 1..Len(lst) |-> WithImageNumber(lst[src[k]], NumberAt(k - 1))]

\* The dictionaries of the argument are the ones of the result: the caller's
\* list holds them with their numbers after the call.
ArgumentAfterOrder(lst) ==
    LET src == SortedPositions(lst)
        place(i) == CHOOSE k \in 1..Len(lst) : src[k] = i
    IN  [i \in 1..Len(lst) |-> WithImageNumber(lst[i], NumberAt(place(i) - 1))]

\* splice_images copies its argument shallowly (image_list.copy()): a tile
\* that was not merged is one dictionary in the argument orig and in the
\* result lst, at the position k with prt[k] = {i}, and holds its number in
\* both after order_images(lst); a merged tile is left as it was.
OriginalAfterOrder(orig, lst, prt) ==
    LET numbered == ArgumentAfterOrder(lst)
        kept(i) == {k \in 1..Len(prt) : prt[k] = {i}}
    IN  [i \in 1..Len(orig) |->
            IF kept(i) # {} THEN numbered[CHOOSE k \in kept(i) : TRUE] ELSE orig[i]]

---------------------------------------------------------------------------
(* The pipeline of extract_all: splice_images, then order_images.          *)

NoMerge == [kind |-> "none"]

\* The text stages have not run: words = [], lines = [].
NoText ==
    /\ words = <<>>
    /\ lines = <<>>
    /\ image = <<>>
    /\ labels = <<>>
    /\ distance = <<>>

\* extract_all before it has read the pages: images = [].
Init ==
    /\ image_list = <<>>
    /\ new_image_list = <<>>
    /\ candidates = <<>>
    /\ parts = <<>>
    /\ last = NoMerge
    /\ merges = 0
    /\ ordered_image_list = <<>>
    /\ order_src = <<>>
    /\ NoText
    /\ NoApi
    /\ pc = "extract"

\* The pages are read and splice_images(images) is entered: its working
\* list is a copy of its argument, and the first scan is made.
SpliceImages ==
    /\ pc = "extract"
    /\ \E n \in 0..MaxTiles : image_list' \in [1..n -> TileUniverse]
    /\ new_image_list' = image_list'
    /\ candidates' = identify_images_to_vertically_splice(new_image_list')
    /\ parts' = [k \in 1..Len(image_list') |-> {k}]
    /\ pc' = "vertical"
    /\ UNCHANGED textvars
    /\ UNCHANGED apivars
    /\ UNCHANGED <<last, merges, ordered_image_list, order_src>>

\* The first loop, its first two lines: the first candidate is merged.
VerticalMerge ==
    /\ pc = "vertical"
    /\ Len(candidates) > 0
    /\ last' = [kind |-> "vertical",
                first |-> new_image_list[candidates[1][1]],
                second |-> new_image_list[candidates[1][2]],
                out |-> vertically_splice_image_pair(new_image_list[candidates[1][1]],
                                                     new_image_list[candidates[1][2]])]
    /\ pc' = "vertical_merged"
    /\ UNCHANGED textvars
    /\ UNCHANGED apivars
    /\ UNCHANGED <<image_list, new_image_list, candidates, parts, merges,
                   ordered_image_list, order_src>>

\* The first loop, the rest of its body: the merged image is appended, the
\* two tiles are removed and the list is scanned again.
VerticalReplace ==
    /\ pc = "vertical_merged"
    /\ new_image_list' = IterationOn(new_image_list, parts, candidates[1][1],
                                     candidates[1][2], last.out, {})[1]
    /\ parts' = IterationOn(new_image_list, parts, candidates[1][1], candidates[1][2],
                            last.out,
                            parts[candidates[1][1]] \cup parts[candidates[1][2]])[2]
    /\ candidates' = identify_images_to_vertically_splice(new_image_list')
    /\ merges' = merges + 1
    /\ pc' = "vertical"
    /\ UNCHANGED textvars
    /\ UNCHANGED apivars
    /\ UNCHANGED <<image_list, last, ordered_image_list, order_src>>

\* The first loop ends: no vertical candidate is left, and the list is
\* scanned for horizontal candidates.
VerticalDone ==
    /\ pc = "vertical"
    /\ Len(candidates) = 0
    /\ candidates' = identify_images_to_horizontally_splice(new_image_list)
    /\ pc' = "horizontal"
    /\ UNCHANGED textvars
    /\ UNCHANGED apivars
    /\ UNCHANGED <<image_list, new_image_list, parts, last, merges,
                   ordered_image_list, order_src>>

\* The second loop, its first two lines: the first candidate is merged.
HorizontalMerge ==
    /\ pc = "horizontal"
    /\ Len(candidates) > 0
    /\ last' = [kind |-> "horizontal",
                first |-> new_image_list[candidates[1][1]],
                second |-> new_image_list[candidates[1][2]],
                out |-> horizontally_splice_image_pair(new_image_list[candidates[1][1]],
                                                       new_image_list[candidates[1][2]])]
    /\ pc' = "horizontal_merged"
    /\ UNCHANGED textvars
    /\ UNCHANGED apivars
    /\ UNCHANGED <<image_list, new_image_list, candidates, parts, merges,
                   ordered_image_list, order_src>>

\* The second loop, the rest of its body.
HorizontalReplace ==
    /\ pc = "horizontal_merged"
    /\ new_image_list' = IterationOn(new_image_list, parts, candidates[1][1],
                                     candidates[1][2], last.out, {})[1]
    /\ parts' = IterationOn(new_image_list, parts, candidates[1][1], candidates[1][2],
                            last.out,
                            parts[candidates[1][1]] \cup parts[candidates[1][2]])[2]
    /\ candidates' = identify_images_to_horizontally_splice(new_image_list')
    /\ merges' = merges + 1
    /\ pc' = "horizontal"
    /\ UNCHANGED textvars
    /\ UNCHANGED apivars
    /\ UNCHANGED <<image_list, last, ordered_image_list, order_src>>

\* The second loop ends and splice_images returns new_image_list.
HorizontalDone ==
    /\ pc = "horizontal"
    /\ Len(candidates) = 0
    /\ pc' = "spliced"
    /\ UNCHANGED textvars
    /\ UNCHANGED apivars
    /\ UNCHANGED <<image_list, new_image_list, candidates, parts, last, merges,
                   ordered_image_list, order_src>>

\* images = order_images(images)
OrderImages ==
    /\ pc = "spliced"
    /\ ordered_image_list' = order_images(new_image_list)
    /\ order_src' = SortedPositions(new_image_list)
    /\ new_image_list' = ArgumentAfterOrder(new_image_list)
    /\ image_list' = OriginalAfterOrder(image_list, new_image_list, parts)
    /\ pc' = "ordered"
    /\ UNCHANGED textvars
    /\ UNCHANGED apivars
    /\ UNCHANGED <<candidates, parts, last, merges>>

Next ==
    \/ SpliceImages
    \/ VerticalMerge
    \/ VerticalReplace
    \/ VerticalDone
    \/ HorizontalMerge
    \/ HorizontalReplace
    \/ HorizontalDone
    \/ OrderImages

Spec == Init /\ [][Next]_vars

\* The steps of splice_images, from its call to its return.
SpliceStep ==
    \/ SpliceImages
    \/ VerticalMerge
    \/ VerticalReplace
    \/ VerticalDone
    \/ HorizontalMerge
    \/ HorizontalReplace
    \/ HorizontalDone

\* splice_images runs on while it can: no step of it waits for anything.
FairSpec == Init /\ [][Next]_vars /\ WF_vars(SpliceStep)

---------------------------------------------------------------------------
(* The two pair functions on their own, on any two tiles.                  *)

InitPair ==
    /\ image_list \in [1..2 -> PairUniverse]
    /\ new_image_list = image_list
    /\ candidates = <<>>
    /\ parts = <<{1}, {2}>>
    /\ last = NoMerge
    /\ merges = 0
    /\ ordered_image_list = <<>>
    /\ order_src = <<>>
    /\ NoText
    /\ NoApi
    /\ pc = "pair"

\* vertically_splice_image_pair(image_list[0], image_list[1])
CallVerticalPair ==
    /\ pc = "pair"
    /\ last' = [kind |-> "vertical", first |-> image_list[1], second |-> image_list[2],
                out |-> vertically_splice_image_pair(image_list[1], image_list[2])]
    /\ pc' = "paired"
    /\ UNCHANGED textvars
    /\ UNCHANGED apivars
    /\ UNCHANGED <<image_list, new_image_list, candidates, parts, merges,
                   ordered_image_list, order_src>>

\* horizontally_splice_image_pair(image_list[0], image_list[1])
CallHorizontalPair ==
    /\ pc = "pair"
    /\ last' = [kind |-> "horizontal", first |-> image_list[1], second |-> image_list[2],
                out |-> horizontally_splice_image_pair(image_list[1], image_list[2])]
    /\ pc' = "paired"
    /\ UNCHANGED textvars
    /\ UNCHANGED apivars
    /\ UNCHANGED <<image_list, new_image_list, candidates, parts, merges,
                   ordered_image_list, order_src>>

NextPair ==
    \/ CallVerticalPair
    \/ CallHorizontalPair

SpecPair == InitPair /\ [][NextPair]_vars

---------------------------------------------------------------------------
(* The pair functions (checked under SpecPair).                            *)

\* The bitmap bmp holds the bitmap src at column offset x and row offset y.
HoldsAt(bmp, src, x, y) ==
    \A r \in 1..src.height : \A c \in 1..src.width :
        bmp.pix[y + r][x + c] = src.pix[r][c]

\* The rows of bmp are 1..height and the columns of each 1..width.
WellFormed(bmp) ==
    /\ DOMAIN bmp.pix = 1..bmp.height
    /\ \A r \in 1..bmp.height : DOMAIN bmp.pix[r] = 1..bmp.width

\* C1: vertically_splice_image_pair(T, B) on bitmaps of equal pixel width
\* returns a record with top = T.top, bottom = B.bottom, y0 = B.y0,
\* y1 = T.y1, whose bitmap has the shared width and the height hT + hB, T's
\* pixels in the rows 0..hT-1 and B's in the rows hT..hT+hB-1.
C1_VerticalPair ==
    (/\ pc = "paired"
     /\ last.kind = "vertical"
     /\ last.first.image.width = last.second.image.width)
    => LET T == last.first
           B == last.second
           N == last.out
       IN  /\ N.top = T.top /\ N.bottom = B.bottom
           /\ N.y0 = B.y0 /\ N.y1 = T.y1
           /\ N.image.width = T.image.width
           /\ N.image.height = T.image.height + B.image.height
           /\ WellFormed(N.image)
           /\ HoldsAt(N.image, T.image, 0, 0)
           /\ HoldsAt(N.image, B.image, 0, T.image.height)

\* A vertical merge of two bitmaps of equal width, unequal heights and
\* unequal pixels, on tiles whose edges all differ.
C1_Witness ==
    /\ pc = "paired"
    /\ last.kind = "vertical"
    /\ last.first.image.width = last.second.image.width
    /\ last.first.image.height # last.second.image.height
    /\ last.first.image.pix[1] # last.second.image.pix[1]
    /\ last.first.top # last.second.top
    /\ last.first.bottom # last.second.bottom

\* C4: horizontally_splice_image_pair(L, R) on bitmaps of equal pixel height
\* returns a record with x0 = L.x0, x1 = R.x1, width = L.width + R.width,
\* every other key as in L, whose bitmap has the shared height and the width
\* wL + wR, L's pixels in the columns 0..wL-1 and R's in wL..wL+wR-1.
C4_HorizontalPair ==
    (/\ pc = "paired"
     /\ last.kind = "horizontal"
     /\ last.first.image.height = last.second.image.height)
    => LET L == last.first
           R == last.second
           N == last.out
       IN  /\ N.x0 = L.x0 /\ N.x1 = R.x1
           /\ N.width = L.width + R.width
           /\ DOMAIN N = DOMAIN L
           /\ \A f \in DOMAIN L \ {"x0", "x1", "width", "image"} : N[f] = L[f]
           /\ N.image.height = L.image.height
           /\ N.image.width = L.image.width + R.image.width
           /\ WellFormed(N.image)
           /\ HoldsAt(N.image, L.image, 0, 0)
           /\ HoldsAt(N.image, R.image, L.image.width, 0)

\* A horizontal merge of two bitmaps of equal height, unequal widths and
\* unequal pixels, on tiles that differ in every key the merge copies.
C4_Witness ==
    /\ pc = "paired"
    /\ last.kind = "horizontal"
    /\ last.first.image.height = last.second.image.height
    /\ last.first.image.width # last.second.image.width
    /\ last.first.image.pix[1][1] # last.second.image.pix[1][1]
    /\ last.first.width # last.second.width
    /\ \A f \in {"page_number", "x0", "x1", "top", "bottom", "y0", "y1", "doctop",
                  "height"} : last.first[f] # last.second[f]

\* The two bitmaps of a merge differ on the axis the merge does not join.
NonSpliceAxisDiffers(m) ==
    \/ m.kind = "vertical" /\ m.first.image.width # m.second.image.width
    \/ m.kind = "horizontal" /\ m.first.image.height # m.second.image.height

\* C5: a merge of two tiles whose bitmaps differ on the non-splice axis
\* fails and produces no image: no call of a pair function on such tiles
\* returns a merged record.
C5_MismatchIsAnError ==
    ~(pc = "paired" /\ last.kind # "none" /\ NonSpliceAxisDiffers(last))

---------------------------------------------------------------------------
(* The candidate scans and the splice loops (checked under Spec).          *)

\* The two positions of the candidates of the list cands, as unordered pairs.
PairsOf(cands) == {{cands[k][1], cands[k][2]} : k \in 1..Len(cands)}

\* The claim's test of a vertical candidate pair, in one orientation.
MeetsVertically(a, b) ==
    /\ a.page_number = b.page_number
    /\ a.width - b.width < 1 /\ b.width - a.width < 1
    /\ a.top - b.bottom < 1 /\ b.bottom - a.top < 1

\* The claim's test of a horizontal candidate pair, in one orientation.
MeetsHorizontally(a, b) ==
    /\ a.page_number = b.page_number
    /\ a.height - b.height < 1 /\ b.height - a.height < 1
    /\ a.x1 - b.x0 < 1 /\ b.x0 - a.x1 < 1

\* C2: two distinct tiles a, b of the working list are reported as a
\* vertical candidate exactly when they are on the same page, their widths
\* differ by less than 1 and the top of one is within 1 of the bottom of the
\* other; as a horizontal candidate exactly when they are on the same page,
\* their heights differ by less than 1 and the x1 of one is within 1 of the
\* x0 of the other.  No tile is paired with itself and no candidate pair
\* spans two pages.
C2_Candidates ==
    LET lst == new_image_list
        V == identify_images_to_vertically_splice(lst)
        H == identify_images_to_horizontally_splice(lst)
    IN  /\ \A a, b \in 1..Len(lst) :
              /\ ({a, b} \in PairsOf(V)) <=>
                     (a # b /\ (MeetsVertically(lst[a], lst[b])
                                \/ MeetsVertically(lst[b], lst[a])))
              /\ ({a, b} \in PairsOf(H)) <=>
                     (a # b /\ (MeetsHorizontally(lst[a], lst[b])
                                \/ MeetsHorizontally(lst[b], lst[a])))
        /\ \A k \in 1..Len(V) :
              /\ V[k][1] # V[k][2]
              /\ lst[V[k][1]].page_number = lst[V[k][2]].page_number
        /\ \A k \in 1..Len(H) :
              /\ H[k][1] # H[k][2]
              /\ lst[H[k][1]].page_number = lst[H[k][2]].page_number

\* The scan of a list with a vertical candidate pair, a horizontal candidate
\* pair, and two tiles that meet edge to edge with equal widths on two
\* different pages, has given splice_images its first candidate.
C2_Witness ==
    LET lst == image_list
    IN  /\ merges = 1
        /\ last.kind = "vertical"
        /\ Len(identify_images_to_vertically_splice(lst)) > 0
        /\ Len(identify_images_to_horizontally_splice(lst)) > 0
        /\ \E a, b \in 1..Len(lst) :
              /\ lst[a].page_number # lst[b].page_number
              /\ lst[a].width = lst[b].width
              /\ lst[a].top = lst[b].bottom

\* C3 as stated: in a vertical merge the tile whose bottom edge meets the
\* other's top edge is the bottom piece: it is the second argument of the
\* merge, its bitmap lies below the other's, and the merged record has its
\* bottom and y0.
C3_BottomPieceAsStated ==
    (last.kind = "vertical")
    => /\ abs(last.first.top - last.second.bottom) < 1
       /\ last.out.bottom = last.second.bottom
       /\ last.out.y0 = last.second.y0
       /\ HoldsAt(last.out.image, last.second.image, 0, last.first.image.height)

\* C3, amended: in a vertical merge the tile whose bottom edge meets the
\* other's top edge is the top piece: it is the first argument, its bitmap
\* lies in the first rows and the merged record has its top and y1; the
\* other tile, whose top edge meets that bottom edge, is the bottom piece:
\* its bitmap is pasted below and the merged record has its bottom and y0.
C3_TopPiece ==
    (last.kind = "vertical")
    => /\ abs(last.second.top - last.first.bottom) < 1
       /\ last.out.top = last.first.top
       /\ last.out.y1 = last.first.y1
       /\ last.out.bottom = last.second.bottom
       /\ last.out.y0 = last.second.y0
       /\ HoldsAt(last.out.image, last.first.image, 0, 0)
       /\ HoldsAt(last.out.image, last.second.image, 0, last.first.image.height)

\* splice_images has merged two tiles vertically that differ in height and
\* in pixels, the lower of them first in the list.
C3_Witness ==
    /\ pc = "horizontal"
    /\ last.kind = "vertical"
    /\ last.first.top < last.second.top
    /\ last.first.height # last.second.height
    /\ last.first.image # last.second.image
    /\ Len(image_list) >= 2
    /\ image_list[1] = last.second

\* What C6 says of every state: one tile less per iteration, at most n-1
\* iterations, and a list that is never emptied.
C6_Counted ==
    LET n == Len(image_list)
    IN  /\ Len(new_image_list) = n - merges
        /\ merges <= (IF n = 0 THEN 0 ELSE n - 1)
        /\ (n >= 1) => (Len(new_image_list) >= 1)

\* What C6 says of every iteration: the pair merged is the first candidate of
\* the phase's scan; its two tiles leave the list, the merged record joins
\* it, and every other tile stays.
C6_Iteration ==
    (merges' # merges \/ new_image_list' # new_image_list)
    => \/ pc \in {"extract", "spliced"}
       \/ LET lst == new_image_list
              cands == IF pc = "vertical_merged"
                       THEN identify_images_to_vertically_splice(lst)
                       ELSE identify_images_to_horizontally_splice(lst)
          IN  /\ merges' = merges + 1
              /\ pc \in {"vertical_merged", "horizontal_merged"}
              /\ Len(cands) > 0
              /\ last.first = lst[cands[1][1]]
              /\ last.second = lst[cands[1][2]]
              /\ \E a, b \in 1..Len(lst) :
                    /\ a # b
                    /\ lst[a] = last.first
                    /\ lst[b] = last.second
                    /\ new_image_list' =
                           [k \in 1..(Len(lst) - 1) |->
                               IF k = Len(lst) - 1 THEN last.out
                               ELSE lst[k + (IF k >= Min2(a, b) THEN 1 ELSE 0)
                                          + (IF k + 1 >= Max2(a, b) THEN 1 ELSE 0)]]

\* C6: splice_images terminates on every list of n tiles; each iteration
\* merges the first candidate pair, adds the merged record and removes the
\* two originals, so the list shrinks by one per iteration, at most n-1
\* merges happen, and the result is not empty when n >= 1.
C6_SpliceTerminates ==
    /\ <>(pc = "spliced")
    /\ []C6_Counted
    /\ [][C6_Iteration]_vars

\* splice_images has returned after two merges of a list of three tiles, a
\* vertical one and then a horizontal one.
C6_Witness ==
    /\ pc = "spliced"
    /\ Len(image_list) = 3
    /\ merges = 2
    /\ last.kind = "horizontal"
    /\ Len(new_image_list) = 1

\* C7: after splice_images every input tile is a constituent of exactly one
\* output image (none dropped, none in two images, also when tiles of the
\* input are equal by value), and the constituents of an output image are
\* all on that image's page.
C7_EachTileOnce ==
    (pc = "spliced")
    => /\ Len(parts) = Len(new_image_list)
       /\ \A i \in 1..Len(image_list) :
             Cardinality({k \in 1..Len(parts) : i \in parts[k]}) = 1
       /\ \A k \in 1..Len(parts) :
             /\ parts[k] \subseteq 1..Len(image_list)
             /\ parts[k] # {}
             /\ \A i \in parts[k] :
                   image_list[i].page_number = new_image_list[k].page_number

\* splice_images has returned a merged image for an input that holds the
\* same tile (by value) twice, one copy of it merged and one left alone.
C7_Witness ==
    /\ pc = "spliced"
    /\ merges >= 1
    /\ \E i, j \in 1..Len(image_list) :
          /\ i # j
          /\ image_list[i] = image_list[j]
          /\ \E k, m \in 1..Len(parts) :
                /\ i \in parts[k] /\ Cardinality(parts[k]) >= 2
                /\ parts[m] = {j}

\* No two distinct tiles of lst are a candidate pair by the claim's tests.
NoCandidatePair(lst) ==
    \A a, b \in 1..Len(lst) :
        (a # b) => /\ ~MeetsVertically(lst[a], lst[b])
                   /\ ~MeetsHorizontally(lst[a], lst[b])

\* Tile i of lst meets no other tile of lst, in either orientation.
NoPartner(lst, i) ==
    \A j \in 1..Len(lst) :
        (j # i) => /\ ~MeetsVertically(lst[i], lst[j])
                   /\ ~MeetsVertically(lst[j], lst[i])
                   /\ ~MeetsHorizontally(lst[i], lst[j])
                   /\ ~MeetsHorizontally(lst[j], lst[i])

\* On an input without a candidate pair the result is the input and no
\* merge is made.
C8_NoPairNoMerge ==
    NoCandidatePair(image_list) => (new_image_list = image_list /\ merges = 0)

\* C8 as stated: on an input without a vertical and without a horizontal
\* candidate pair, splice_images returns a list of the same records,
\* unaltered; and a tile that has no splice partner among the tiles of the
\* input appears in the output as it was in the input.
C8_NothingToMergeAsStated ==
    (pc = "spliced")
    => /\ C8_NoPairNoMerge
       /\ \A i \in 1..Len(image_list) :
             NoPartner(image_list, i)
                => \E k \in 1..Len(new_image_list) : new_image_list[k] = image_list[i]

\* C8: on an input without a vertical and without a horizontal candidate
\* pair, splice_images returns a list of the same records, unaltered.  A
\* tile that has no splice partner among the tiles of the input appears in
\* the output as it was in the input, unless it was merged with a record
\* made by an earlier merge: at least two merges were made then, and the
\* record it went into is made of at least three tiles.  A tile that no
\* merge took appears in the output as it was in the input.
C8_NothingToMerge ==
    (pc = "spliced")
    => /\ C8_NoPairNoMerge
       /\ \A i \in 1..Len(image_list) :
             NoPartner(image_list, i)
                => \/ \E k \in 1..Len(parts) :
                         parts[k] = {i} /\ new_image_list[k] = image_list[i]
                   \/ /\ merges >= 2
                      /\ \E k \in 1..Len(parts) :
                            i \in parts[k] /\ Cardinality(parts[k]) >= 3
       /\ \A k \in 1..Len(parts) : \A i \in 1..Len(image_list) :
             (parts[k] = {i}) => (new_image_list[k] = image_list[i])

\* Two tiles one above the other and a third, twice as high, beside them:
\* the third has no partner in the input and is merged with the record made
\* of the two.
C8_MergedWithAProduct ==
    /\ pc = "spliced"
    /\ Len(image_list) = 3
    /\ merges = 2
    /\ \E i \in 1..3 :
          /\ NoPartner(image_list, i)
          /\ \A k \in 1..Len(new_image_list) : new_image_list[k] # image_list[i]

\* splice_images has returned for three tiles without a candidate pair, two
\* of them meeting edge to edge with unequal widths and two of them side by
\* side with unequal heights.
C8_Witness ==
    /\ pc = "spliced"
    /\ Len(image_list) = 3
    /\ NoCandidatePair(image_list)
    /\ \E a, b \in 1..3 :
          /\ image_list[a].page_number = image_list[b].page_number
          /\ image_list[a].top = image_list[b].bottom
          /\ image_list[a].width # image_list[b].width
    /\ \E a, b \in 1..3 :
          /\ image_list[a].page_number = image_list[b].page_number
          /\ image_list[a].x1 = image_list[b].x0
          /\ image_list[a].height # image_list[b].height

---------------------------------------------------------------------------
(* order_images (checked under Spec).                                      *)

\* Image a's (page_number, y0, x0) is not after image b's.
KeyNotAfter(a, b) ==
    \/ a.page_number < b.page_number
    \/ a.page_number = b.page_number /\ a.y0 < b.y0
    \/ a.page_number = b.page_number /\ a.y0 = b.y0 /\ a.x0 <= b.x0

SameKey(a, b) ==
    a.page_number = b.page_number /\ a.y0 = b.y0 /\ a.x0 = b.x0

\* What C9 says of a call of order_images on inp that returns out, src[k]
\* being the position in inp of the k-th image of out.
C9_Call(inp, out, src) ==
    LET n == Len(inp)
    IN  /\ Len(out) = n /\ Len(src) = n
        /\ {src[k] : k \in 1..n} = 1..n
        /\ \A k \in 1..n :
              /\ DOMAIN out[k] = DOMAIN inp[src[k]] \cup {"image_number"}
              /\ \A f \in DOMAIN inp[src[k]] : out[k][f] = inp[src[k]][f]
              /\ out[k].image_number = k
        /\ \A k, l \in 1..n :
              (k < l) => /\ KeyNotAfter(out[k], out[l])
                         /\ SameKey(out[k], out[l]) => src[k] < src[l]
        /\ {out[k].image_number : k \in 1..n} = 1..n
        /\ (n = 0) => (out = <<>>)

\* C9: order_images returns its input images sorted ascending by
\* (page_number, y0, x0), images of equal key in their input order, the k-th
\* image of the result numbered k: the numbers of n images are 1..n, and the
\* empty list gives the empty list.
C9_Ordered ==
    [][(pc = "spliced" /\ pc' = "ordered")
          => C9_Call(new_image_list, ordered_image_list', order_src')]_vars

\* order_images has returned three images that it had to reorder, two of
\* them of equal key and unequal value, and one of another page.
C9_Witness ==
    /\ pc = "ordered"
    /\ Len(ordered_image_list) = 3
    /\ order_src # <<1, 2, 3>>
    /\ \E k \in 1..2 :
          /\ SameKey(ordered_image_list[k], ordered_image_list[k + 1])
          /\ ordered_image_list[k].width # ordered_image_list[k + 1].width
    /\ ordered_image_list[1].page_number # ordered_image_list[3].page_number

\* The permutations of 1..n.
Orderings(n) == {f \in [1..n -> 1..n] : \A a, b \in 1..n : f[a] = f[b] => a = b}

\* The list lst presented in the order f.
Presented(lst, f) == [k \in 1..Len(lst) |-> lst[f[k]]]

\* The images of a list, each with the number order_images gives it.
Numbered(lst) == {order_images(lst)[k] : k \in 1..Len(lst)}

\* C10 as stated: however the collection order_images is called on is
\* presented, each image gets the same image_number.
C10_AnyOrderAsStated ==
    (pc = "spliced")
    => \A f \in Orderings(Len(new_image_list)) :
          Numbered(Presented(new_image_list, f)) = Numbered(new_image_list)

\* C10, amended: however the collection is presented, the k-th image of the
\* result has the same (page_number, y0, x0), and each image whose
\* (page_number, y0, x0) no other image of the collection shares gets the
\* same image_number; images that share a key are numbered among
\* themselves in the order of the input.
C10_UniqueKeysAnyOrder ==
    (pc = "spliced")
    => LET lst == new_image_list
           n == Len(lst)
           one == order_images(lst)
       IN  \A f \in Orderings(n) :
              LET two == order_images(Presented(lst, f))
              IN  /\ \A k \in 1..n : SameKey(one[k], two[k])
                  /\ \A k \in 1..n :
                        (\A l \in 1..n : SameKey(one[k], one[l]) => l = k)
                           => two[k] = one[k]
                  /\ \A k, l \in 1..n :
                        (k < l /\ SameKey(lst[f[k]], lst[f[l]]))
                           => \E a, b \in 1..n :
                                 /\ a < b
                                 /\ two[a] = WithImageNumber(lst[f[k]], a)
                                 /\ two[b] = WithImageNumber(lst[f[l]], b)

\* order_images is about to be called on three images, two of them of equal
\* key and unequal value, the third of a key of its own.
C10_Witness ==
    /\ pc = "spliced"
    /\ Len(new_image_list) = 3
    /\ \E a, b, c \in 1..3 :
          /\ SameKey(new_image_list[a], new_image_list[b])
          /\ new_image_list[a] # new_image_list[b]
          /\ ~SameKey(new_image_list[a], new_image_list[c])

---------------------------------------------------------------------------
(* Text.  A Python str is the sequence of its characters, each a string of *)
(* one character.                                                          *)

LowerLetters == {"a", "b", "c", "e", "f", "g", "i", "n", "o", "r", "s", "u", "x"}
UpperLetters == {"A", "F", "I", "G", "S"}
Digits == {"1", "2", "3"}

\* c.isalnum()
isalnum(c) == c \in LowerLetters \cup UpperLetters \cup Digits

\* c.lower()
lower_char(c) ==
    CASE c = "A" -> "a"
      [] c = "F" -> "f"
      [] c = "I" -> "i"
      [] c = "G" -> "g"
      [] c = "S" -> "s"
      [] OTHER -> c

\* s.lower()
lower(s) == [k \in 1..Len(s) |-> lower_char(s[k])]

\* ''.join([c for c in s if c.isalnum()])
alnum_only(s) == SelectSeq(s, isalnum)

\* s.split(): the maximal runs of non-blank characters of s from position k
\* on, cur being the run that position k continues.
RECURSIVE split_from(_, _, _)
split_from(s, k, cur) ==
    IF k > Len(s)
    THEN IF cur = <<>> THEN <<>> ELSE <<cur>>
    ELSE IF s[k] = " "
         THEN IF cur = <<>>
              THEN split_from(s, k + 1, <<>>)
              ELSE <<cur>> \o split_from(s, k + 1, <<>>)
         ELSE split_from(s, k + 1, Append(cur, s[k]))

split(s) == split_from(s, 1, <<>>)

\* ' '.join(ws)
RECURSIVE join(_)
join(ws) ==
    IF ws = <<>> THEN <<>>
    ELSE IF Len(ws) = 1 THEN ws[1]
    ELSE ws[1] \o <<" ">> \o join(Tail(ws))

FIGURE_INDICATORS ==
    << <<"f", "i", "g", "u", "r", "e">>, <<"f", "i", "g">>, <<"f", "i", "g", ".">> >>

\* word in FIGURE_INDICATORS
InIndicators(word) == \E k \in 1..Len(FIGURE_INDICATORS) : FIGURE_INDICATORS[k] = word

\* The regular expression pat matches s at position k: "." in a pattern
\* stands for any character.
MatchesAt(s, k, pat) ==
    /\ k + Len(pat) - 1 <= Len(s)
    /\ \A m \in 1..Len(pat) : pat[m] = "." \/ pat[m] = s[k + m - 1]

\* str.contains('|'.join(FIGURE_INDICATORS)): a search for figure|fig|fig.
contains_indicator(s) ==
    \E n \in 1..Len(FIGURE_INDICATORS) : \E k \in 1..Len(s) :
        MatchesAt(s, k, FIGURE_INDICATORS[n])

---------------------------------------------------------------------------
(* Floats.  The coordinates of lines and images are whole numbers; the     *)
(* centre of a line is a multiple of one half, and the maximum of an empty *)
(* column is NaN.  A float is a number of halves, or NaN.                  *)

NaN == [nan |-> TRUE, halves |-> 0]

\* The float of the whole number n.
Float(n) == [nan |-> FALSE, halves |-> 2 * n]

\* a + b
FAdd(a, b) == IF a.nan \/ b.nan THEN NaN ELSE [nan |-> FALSE, halves |-> a.halves + b.halves]

\* a - b
FSub(a, b) == IF a.nan \/ b.nan THEN NaN ELSE [nan |-> FALSE, halves |-> a.halves - b.halves]

\* a / 2, for a a whole number
FHalf(a) == IF a.nan THEN NaN ELSE [nan |-> FALSE, halves |-> a.halves \div 2]

\* abs(a)
FAbs(a) == IF a.nan THEN NaN ELSE [nan |-> FALSE, halves |-> abs(a.halves)]

\* a < b: false when either is NaN
FLess(a, b) == ~a.nan /\ ~b.nan /\ a.halves < b.halves

\* min(a, b): b if b < a, else a
FMin(a, b) == IF FLess(b, a) THEN b ELSE a

\* column.max(): NaN for a column without rows
RECURSIVE ColumnMax(_)
ColumnMax(col) ==
    IF col = <<>> THEN NaN
    ELSE IF Len(col) = 1 THEN col[1]
    ELSE LET rest == ColumnMax(Tail(col))
         IN  IF FLess(col[1], rest) THEN rest ELSE col[1]

---------------------------------------------------------------------------
(* The label associator.                                                   *)

\* A slip: the distance measured from the top of the line, not its centre.
DistanceFromTop(line, img) ==
    LET line_y_center == line.top
    IN  IF FLess(img.top, line_y_center) /\ FLess(line_y_center, img.bottom)
        THEN Float(0)
        ELSE FMin(FAbs(FSub(line_y_center, img.top)),
                  FAbs(FSub(line_y_center, img.bottom)))

\* get_distance_from_line_to_image(line, image): top and bottom are floats.
get_distance_from_line_to_image(line, img) ==
    LET line_y_center == FHalf(FAdd(line.top, line.bottom))
    IN  IF FLess(img.top, line_y_center) /\ FLess(line_y_center, img.bottom)
        THEN Float(0)
        ELSE FMin(FAbs(FSub(line_y_center, img.top)),
                  FAbs(FSub(line_y_center, img.bottom)))

\* A row of the line table with its coordinates as floats.
FloatRow(row) == [row EXCEPT !.top = Float(row.top), !.bottom = Float(row.bottom)]

\* The image with its coordinates as floats.
FloatImage(img) == [img EXCEPT !.top = Float(img.top), !.bottom = Float(img.bottom)]

\* row with the column distance set
WithDistance(row, img) ==
    [page_number |-> row.page_number, top |-> row.top, bottom |-> row.bottom,
     text |-> row.text, line_number |-> row.line_number,
     distance |-> get_distance_from_line_to_image(row, img)]

\* lines[lines['page_number'] == page]
OnPage(lns, page) == SelectSeq(lns, LAMBDA row : row.page_number = page)

\* page_lines: the lines of the image's page with their distances
page_lines_of(img, lns) ==
    LET rows == OnPage(lns, img.page_number)
    IN  [k \in 1..Len(rows) |-> WithDistance(FloatRow(rows[k]), FloatImage(img))]

\* A slip: the bottom of the first line of the page taken for the maximum.
PageHeightOfFirstLine(img, lns) ==
    LET rows == page_lines_of(img, lns)
    IN  IF rows = <<>> THEN NaN ELSE rows[1].bottom

\* page_height = page_lines['bottom'].max()
page_height_of(img, lns) ==
    LET rows == page_lines_of(img, lns)
    IN  ColumnMax([k \in 1..Len(rows) |-> rows[k].bottom])

\* A slip: every later page taken for the next page.
LaterPages(img, lns) == SelectSeq(lns, LAMBDA row : row.page_number > img.page_number)

\* lines[lines['page_number'] == image['page_number'] + 1]
NextPage(img, lns) == OnPage(lns, img.page_number + 1)

\* next_page_lines: the lines of the next page, moved down by page_height,
\* with their distances
next_page_lines_of(img, lns) ==
    LET rows == NextPage(img, lns)
        page_height == page_height_of(img, lns)
        moved(row) == [FloatRow(row) EXCEPT !.top = FAdd(@, page_height),
                                            !.bottom = FAdd(@, page_height)]
    IN  [k \in 1..Len(rows) |-> WithDistance(moved(rows[k]), FloatImage(img))]

\* A slip: the lines of the next page put before those of the image's page.
figure_lines_next_page_first(img, lns) ==
    SelectSeq(next_page_lines_of(img, lns) \o page_lines_of(img, lns),
              LAMBDA row : contains_indicator(lower(row.text)))

\* figure_lines: the rows of the two tables whose lowered text holds an indicator
figure_lines_of(img, lns) ==
    SelectSeq(page_lines_of(img, lns) \o next_page_lines_of(img, lns),
              LAMBDA row : contains_indicator(lower(row.text)))

\* A slip: the label cut to three characters.
truncate_to_three(label) == IF Len(label) > 3 THEN SubSeq(label, 1, 3) ELSE label

\* if len(label) > 2: label = label[:2]
truncate(label) == IF Len(label) > 2 THEN SubSeq(label, 1, 2) ELSE label

\* A slip: a word without an alphanumeric character kept as it is.
strip_unless_bare(word) ==
    IF alnum_only(word) = <<>> THEN truncate(word) ELSE truncate(alnum_only(word))

\* The label made of the word after the indicator.
strip_and_truncate(word) == truncate(alnum_only(word))

\* A slip: a word that begins with an indicator taken for an indicator.
begins_with_indicator(word) ==
    \E k \in 1..Len(FIGURE_INDICATORS) : MatchesAt(alnum_only(word), 1, FIGURE_INDICATORS[k])

\* word = ''.join([c for c in word if c.isalnum()]); word in FIGURE_INDICATORS
is_indicator_word(word) == InIndicators(alnum_only(word))

\* A slip: the last two words of the line left out.
has_word_after_next(ws, ii) == ii < Len(ws) - 2

\* ii < len(words) - 1
has_next_word(ws, ii) == ii < Len(ws) - 1

\* The labels of one row, from word ii (counted from 0) on.
RECURSIVE row_labels_from(_, _, _)
row_labels_from(row, ws, ii) ==
    IF ii >= Len(ws) THEN <<>>
    ELSE (IF is_indicator_word(ws[ii + 1]) /\ has_next_word(ws, ii)
          THEN << [page_number |-> row.page_number,
                   line_number |-> row.line_number,
                   word_number |-> ii,
                   distance |-> row.distance,
                   label |-> strip_and_truncate(ws[ii + 2])] >>
          ELSE <<>>)
         \o row_labels_from(row, ws, ii + 1)

\* The labels of one row: words = row['text'].lower().split()
row_labels(row) == row_labels_from(row, split(lower(row.text)), 0)

\* The labels of the rows, row after row.
RECURSIVE labels_of_rows(_)
labels_of_rows(rows) ==
    IF rows = <<>> THEN <<>>
    ELSE row_labels(rows[1]) \o labels_of_rows(Tail(rows))

extract_figure_labels(img, lns) == labels_of_rows(figure_lines_of(img, lns))

---------------------------------------------------------------------------
(* extract_figure_labels on its own, on an image and a line table.         *)

MaxLines == 3
MaxTextLines == 2

LinePages == {1, 2, 3}
LineSpans == {<<0, 2>>, <<3, 4>>}
ImageSpans == {<<1, 3>>, <<2, 4>>}

W_Fig == <<"F", "i", "g", ".">>
W_fig == <<"f", "i", "g">>
W_Figure == <<"F", "I", "G", "u", "r", "e">>
W_figures == <<"f", "i", "g", "u", "r", "e", "s">>
W_configure == <<"c", "o", "n", "f", "i", "g", "u", "r", "e">>
W_open_fig == <<"(", "f", "i", "g">>
W_f_ig == <<"f", "-", "i", "g">>
W_see == <<"s", "e", "e">>
W_one == <<"1", ":">>
W_2a == <<"2", "a", ")">>
W_S12 == <<"S", "1", "2">>
W_dash == <<"-">>

\* "Fig. 1:" and "see", the texts of the tables of up to MaxLines lines.
PlainTexts == {join(<<W_Fig, W_one>>), join(<<W_see>>)}

\* The texts of the tables of up to MaxTextLines lines.
TextUniverse ==
    PlainTexts \cup
    {join(<<W_see, W_fig>>),
     join(<<W_figures, W_one>>),
     join(<<W_configure, W_one>>),
     join(<<W_Figure, W_S12>>),
     join(<<W_open_fig, W_2a>>),
     join(<<W_fig, W_fig, W_one>>),
     join(<<W_fig, W_dash>>),
     join(<<W_f_ig, W_one>>),
     join(<<W_f_ig, W_one, W_fig>>),
     W_see \o <<" ", " ">> \o W_Fig \o <<" ">> \o W_one \o <<" ">>}

\* A row of the line table before its line_number is known.
Line(p, span, txt) == [page_number |-> p, top |-> span[1], bottom |-> span[2], text |-> txt]

\* The table of the rows: line_number is the index of the row, from 0.
LineTable(rows) ==
    [k \in 1..Len(rows) |->
        [page_number |-> rows[k].page_number, top |-> rows[k].top,
         bottom |-> rows[k].bottom, text |-> rows[k].text, line_number |-> k - 1]]

\* Lines of three pages at two heights, with the two plain texts.
PlacedLines == {Line(p, span, txt) : p \in LinePages, span \in LineSpans, txt \in PlainTexts}

\* Lines of two pages at one height, with every text.
WordedLines == {Line(p, <<0, 2>>, txt) : p \in {1, 2}, txt \in TextUniverse}

\* The images: the fields extract_figure_labels reads.
ImageUniverse == {[page_number |-> p, top |-> span[1], bottom |-> span[2]] :
                     p \in {1, 2}, span \in ImageSpans}

InitLabels ==
    /\ image_list = <<>>
    /\ new_image_list = <<>>
    /\ candidates = <<>>
    /\ parts = <<>>
    /\ last = NoMerge
    /\ merges = 0
    /\ ordered_image_list = <<>>
    /\ order_src = <<>>
    /\ words = <<>>
    /\ \/ /\ image \in ImageUniverse
          /\ \E n \in 0..MaxLines : \E rows \in [1..n -> PlacedLines] :
                lines = LineTable(rows)
       \/ /\ image = [page_number |-> 1, top |-> 1, bottom |-> 3]
          /\ \E n \in 0..MaxTextLines : \E rows \in [1..n -> WordedLines] :
                lines = LineTable(rows)
    /\ labels = <<>>
    /\ distance = <<>>
    /\ NoApi
    /\ pc = "labels"

\* extract_figure_labels(image, lines)
ExtractFigureLabels ==
    /\ pc = "labels"
    /\ labels' = extract_figure_labels(image, lines)
    /\ pc' = "labelled"
    /\ UNCHANGED <<words, lines, image, distance>>
    /\ UNCHANGED imagevars
    /\ UNCHANGED apivars

\* get_distance_from_line_to_image(lines.iloc[k], image)
GetDistance ==
    /\ pc = "labels"
    /\ \E k \in 1..Len(lines) :
          distance' = [line |-> k,
                       value |-> get_distance_from_line_to_image(
                                     FloatRow(lines[k]), FloatImage(image))]
    /\ pc' = "measured"
    /\ UNCHANGED <<words, lines, image, labels>>
    /\ UNCHANGED imagevars
    /\ UNCHANGED apivars

NextLabels ==
    \/ ExtractFigureLabels
    \/ GetDistance

SpecLabels == InitLabels /\ [][NextLabels]_vars

---------------------------------------------------------------------------
(* The line assembler.                                                     *)

\* A slip: the bottom left out of the group key.
GroupKeyWithoutBottom(word) == <<word.page_number, word.top, 0>>

\* groupby(['page_number', 'top', 'bottom'])
GroupKey(word) == <<word.page_number, word.top, word.bottom>>

\* A slip: the keys of the groups in descending order.
RECURSIVE SortedKeysDescending(_)
SortedKeysDescending(keys) ==
    IF keys = {} THEN <<>>
    ELSE LET first == CHOOSE k \in keys : \A other \in keys : ~TupleLess(k, other)
         IN  <<first>> \o SortedKeysDescending(keys \ {first})

\* The keys of the groups in ascending order, as groupby produces them.
RECURSIVE SortedKeys(_)
SortedKeys(keys) ==
    IF keys = {} THEN <<>>
    ELSE LET first == CHOOSE k \in keys : \A other \in keys : ~TupleLess(other, k)
         IN  <<first>> \o SortedKeys(keys \ {first})

\* x.sort_values('x0'): row n of the group goes behind the rows already
\* placed whose x0 is not greater than its own.
RECURSIVE sort_values_x0(_, _)
sort_values_x0(rows, n) ==
    IF n = 0 THEN <<>>
    ELSE LET sorted == sort_values_x0(rows, n - 1)
             before == Cardinality({m \in 1..Len(sorted) : sorted[m].x0 <= rows[n].x0})
         IN  SubSeq(sorted, 1, before) \o <<rows[n]>> \o SubSeq(sorted, before + 1, Len(sorted))

\* The line of one group: ' '.join(x['text']) of its rows sorted by x0.
GroupLine(word_df, key, number) ==
    LET rows == SelectSeq(word_df, LAMBDA word : GroupKey(word) = key)
        sorted == sort_values_x0(rows, Len(rows))
    IN  [line_number |-> number,
         page_number |-> rows[1].page_number,
         top |-> rows[1].top,
         bottom |-> rows[1].bottom,
         text |-> join([k \in 1..Len(sorted) |-> sorted[k].text])]

\* word_df_to_line_df(word_df), for a table that has its columns.
word_df_to_line_df(word_df) ==
    LET keys == SortedKeys({GroupKey(word_df[k]) : k \in 1..Len(word_df)})
    IN  [n \in 1..Len(keys) |-> GroupLine(word_df, keys[n], n - 1)]

---------------------------------------------------------------------------
(* The text stages of extract_all: the words of the pages are made lines,  *)
(* and the labels of an image are looked up in the lines.                  *)

MaxWords == 3

\* The words of the pages: three vertical spans on the first page, one on
\* the second, two left edges, two texts.
WordRecords ==
    {[page_number |-> ps[1], top |-> ps[2], bottom |-> ps[3], x0 |-> x, text |-> txt] :
        ps \in {<<1, 0, 2>>, <<1, 0, 3>>, <<1, 1, 3>>, <<2, 0, 2>>},
        x \in {0, 1},
        txt \in {W_Fig, W_one}}

InitText ==
    /\ image_list = <<>>
    /\ new_image_list = <<>>
    /\ candidates = <<>>
    /\ parts = <<>>
    /\ last = NoMerge
    /\ merges = 0
    /\ ordered_image_list = <<>>
    /\ order_src = <<>>
    /\ \E n \in 0..MaxWords : words \in [1..n -> WordRecords]
    /\ lines = <<>>
    /\ image = [page_number |-> 1, top |-> 1, bottom |-> 3]
    /\ labels = <<>>
    /\ distance = <<>>
    /\ NoApi
    /\ pc = "words"

\* lines = word_df_to_line_df(pd.DataFrame(words)): the table of no word
\* has no column, and groupby raises KeyError.
WordDfToLineDf ==
    /\ pc = "words"
    /\ IF words = <<>>
       THEN /\ pc' = "KeyError"
            /\ UNCHANGED lines
       ELSE /\ lines' = word_df_to_line_df(words)
            /\ pc' = "lines"
    /\ UNCHANGED <<words, image, labels, distance>>
    /\ UNCHANGED imagevars
    /\ UNCHANGED apivars

\* find_candidate_labels_for_figures(images, lines), for one image
FindCandidateLabels ==
    /\ pc = "lines"
    /\ labels' = extract_figure_labels(image, lines)
    /\ image' = [f \in DOMAIN image \cup {"candidate_labels"} |->
                    IF f = "candidate_labels" THEN labels' ELSE image[f]]
    /\ pc' = "found"
    /\ UNCHANGED <<words, lines, distance>>
    /\ UNCHANGED imagevars
    /\ UNCHANGED apivars

NextText ==
    \/ WordDfToLineDf
    \/ FindCandidateLabels

SpecText == InitText /\ [][NextText]_vars

---------------------------------------------------------------------------
(* validate_interval.                                                      *)

DecimalDigits == <<"0", "1", "2", "3", "4", "5", "6", "7", "8", "9">>

\* c matches \d
IsDigit(c) == \E k \in 1..10 : DecimalDigits[k] = c

\* int(c), for a digit c
DigitValue(c) == (CHOOSE k \in 1..10 : DecimalDigits[k] = c) - 1

\* int(s[a..b]), for digits
RECURSIVE IntOf(_, _, _)
IntOf(s, a, b) ==
    IF b < a THEN 0 ELSE 10 * IntOf(s, a, b - 1) + DigitValue(s[b])

\* \d{4}-\d{2}-\d{2}: "d" stands for \d
DatePattern == <<"d", "d", "d", "d", "-", "d", "d", "-", "d", "d">>

\* \d{4}-\d{2}-\d{2}/\d{4}-\d{2}-\d{2}
RangePattern == DatePattern \o <<"/">> \o DatePattern

\* re.match(pattern, s) for a pattern of fixed length: s begins with it.
MatchesPrefix(s, pat) ==
    /\ Len(s) >= Len(pat)
    /\ \A m \in 1..Len(pat) :
          IF pat[m] = "d" THEN IsDigit(s[m]) ELSE s[m] = pat[m]

\* s.split("/"), from position k on, cur being the part that position k continues
RECURSIVE split_slash_from(_, _, _)
split_slash_from(s, k, cur) ==
    IF k > Len(s) THEN <<cur>>
    ELSE IF s[k] = "/"
         THEN <<cur>> \o split_slash_from(s, k + 1, <<>>)
         ELSE split_slash_from(s, k + 1, Append(cur, s[k]))

split_slash(s) == split_slash_from(s, 1, <<>>)

\* The days of month m of year y.
DaysInMonth(y, m) ==
    IF m = 2
    THEN IF (y % 4 = 0 /\ y % 100 # 0) \/ y % 400 = 0 THEN 29 ELSE 28
    ELSE IF m \in {4, 6, 9, 11} THEN 30 ELSE 31

\* datetime.datetime.strptime(x, "%Y-%m-%d") returns, for an x that begins
\* with \d{4}-\d{2}-\d{2}: nothing follows the day, and the date exists.
strptime_ok(x) ==
    /\ Len(x) = 10
    /\ MatchesPrefix(x, DatePattern)
    /\ IntOf(x, 1, 4) >= 1
    /\ IntOf(x, 6, 7) \in 1..12
    /\ IntOf(x, 9, 10) \in 1..DaysInMonth(IntOf(x, 1, 4), IntOf(x, 6, 7))

\* The number of digits s begins with.
RECURSIVE LeadingDigits(_, _)
LeadingDigits(s, k) ==
    IF k <= Len(s) /\ IsDigit(s[k]) THEN 1 + LeadingDigits(s, k + 1) ELSE 0

\* re.match(r"^\d+$", s): digits to the end, or to a last line feed
MatchesDigitsOnly(s) ==
    LET n == LeadingDigits(s, 1)
    IN  /\ n >= 1
        /\ \/ n = Len(s)
           \/ n = Len(s) - 1 /\ s[Len(s)] = "\n"

\* re.match(r"\d+d", s): s begins with digits and a d
MatchesDigitsAndD(s) ==
    LET n == LeadingDigits(s, 1)
    IN  n >= 1 /\ n < Len(s) /\ s[n + 1] = "d"

\* validate_interval(interval): "True", "False", or "ValueError" when the
\* unpacking of start, end raises outside the try.
validate_interval(s) ==
    IF MatchesPrefix(s, RangePattern)
    THEN IF Len(split_slash(s)) # 2
         THEN "ValueError"
         ELSE IF strptime_ok(split_slash(s)[1]) /\ strptime_ok(split_slash(s)[2])
              THEN "True"
              ELSE "False"
    ELSE IF MatchesDigitsOnly(s) THEN "True"
    ELSE IF MatchesDigitsAndD(s) THEN "True"
    ELSE "False"

\* The two characters of n < 100, and the four of y < 10000.
TwoDigits(n) == <<DecimalDigits[(n \div 10) + 1], DecimalDigits[(n % 10) + 1]>>
FourDigits(y) == TwoDigits(y \div 100) \o TwoDigits(y % 100)

\* YYYY-MM-DD
DateString(y, m, d) == FourDigits(y) \o <<"-">> \o TwoDigits(m) \o <<"-">> \o TwoDigits(d)

\* Dates that exist and dates that do not.
DateStrings ==
    {DateString(2022, 1, 1), DateString(2022, 1, 31), DateString(2022, 1, 32),
     DateString(2022, 0, 1), DateString(2022, 2, 29), DateString(2024, 2, 29),
     DateString(0, 1, 1)}

\* Numbers.
NumberStrings == {<<"7">>, <<"1", "0", "0">>, <<"2", "0", "2", "0">>}

\* What may follow.
Endings ==
    {<<>>, <<"d">>, <<"d", "a", "y", "s">>, <<"d", "d">>, <<"x">>, <<" ">>, <<"\n">>,
     <<"/">>, <<"/", "7">>}

\* The strings validate_interval is tried on.
IntervalUniverse ==
    {a \o <<"/">> \o b \o e : a \in DateStrings, b \in DateStrings,
                              e \in {<<>>, <<"x">>, <<"/", "7">>}}
    \cup {a \o e : a \in DateStrings \cup NumberStrings, e \in Endings}
    \cup {<<>>, <<"d">>, <<"i", "n", "v", "a", "l", "i", "d">>,
          <<"2", "0", "2", "2", "-", "0", "1">>,
          DateString(2022, 1, 1) \o <<"/">> \o <<"2", "0", "2", "2", "-", "0", "1">>}

InitInterval ==
    /\ image_list = <<>>
    /\ new_image_list = <<>>
    /\ candidates = <<>>
    /\ parts = <<>>
    /\ last = NoMerge
    /\ merges = 0
    /\ ordered_image_list = <<>>
    /\ order_src = <<>>
    /\ NoText
    /\ interval \in IntervalUniverse
    /\ valid = "none"
    /\ collection = <<>>
    /\ cursor = 0
    /\ all_results = <<>>
    /\ requests = <<>>
    /\ overview_cache = <<>>
    /\ article_cache = <<>>
    /\ calls = <<>>
    /\ retrieved = <<>>
    /\ generated = <<>>
    /\ pc = "interval"

\* validate_interval(interval)
ValidateInterval ==
    /\ pc = "interval"
    /\ valid' = validate_interval(interval)
    /\ pc' = "validated"
    /\ UNCHANGED <<interval>>
    /\ UNCHANGED <<pagingvars, jobvars, imagevars, textvars>>

NextInterval == ValidateInterval

SpecInterval == InitInterval /\ [][NextInterval]_vars

---------------------------------------------------------------------------
(* get_all_content_details_by_interval against a server that holds a       *)
(* fixed sequence of articles.                                             *)

MaxArticles == 250

\* The papers served in a call, and len(collections) < 100.
PageSize == 100

\* cursor += 100
CursorStep == 100

\* The articles cursor..min(cursor + PageSize, N) - 1 of the server, counted from 0.
ServerPage(held, c) ==
    IF c >= Len(held) THEN <<>>
    ELSE SubSeq(held, c + 1, Min2(c + PageSize, Len(held)))

\* query_content_detail_by_interval(interval, cursor)["collections"]
query_content_detail_by_interval(s, held, c) ==
    IF validate_interval(s) # "True"
    THEN [raised |-> TRUE, collections |-> <<>>]
    ELSE [raised |-> FALSE, collections |-> ServerPage(held, c)]

\* A slip: a full page taken for the last one.
IsShortOrFullPage(collections) == Len(collections) <= PageSize

\* len(collections) < 100
IsShortPage(collections) == Len(collections) < PageSize

\* A range of dates and a number of days; a range whose last day does not
\* exist, a word, and a range with a third part.
PagingIntervals ==
    {DateString(2022, 1, 1) \o <<"/">> \o DateString(2022, 1, 31),
     <<"1", "0", "0", "d">>,
     DateString(2022, 1, 1) \o <<"/">> \o DateString(2022, 1, 32),
     <<"i", "n", "v", "a", "l", "i", "d">>,
     DateString(2022, 1, 1) \o <<"/">> \o DateString(2022, 1, 31) \o <<"/", "7">>}

InitPaging ==
    /\ image_list = <<>>
    /\ new_image_list = <<>>
    /\ candidates = <<>>
    /\ parts = <<>>
    /\ last = NoMerge
    /\ merges = 0
    /\ ordered_image_list = <<>>
    /\ order_src = <<>>
    /\ NoText
    /\ interval \in PagingIntervals
    /\ valid = "none"
    /\ \E n \in 0..MaxArticles : collection = [k \in 1..n |-> k]
    /\ cursor = 0
    /\ all_results = <<>>
    /\ requests = <<>>
    /\ overview_cache = <<>>
    /\ article_cache = <<>>
    /\ calls = <<>>
    /\ retrieved = <<>>
    /\ generated = <<>>
    /\ pc = "call"

\* all_results = []; cursor = 0
GetAllContentDetails ==
    /\ pc = "call"
    /\ all_results' = <<>>
    /\ cursor' = 0
    /\ pc' = "paging"
    /\ UNCHANGED <<collection, requests, intervalvars, jobvars, imagevars, textvars>>

\* The loop calls query_content_detail_by_interval(interval, cursor): an
\* interval that is not valid raises before anything is sent, a valid one
\* is sent to the server with the cursor.
SendRequest ==
    /\ pc = "paging"
    /\ IF query_content_detail_by_interval(interval, collection, cursor).raised
       THEN /\ pc' = "ValueError"
            /\ UNCHANGED requests
       ELSE /\ requests' = Append(requests, cursor)
            /\ pc' = "waiting"
    /\ UNCHANGED <<collection, cursor, all_results, intervalvars, jobvars, imagevars,
                   textvars>>

\* The server's answer comes: its page is added to all_results; a short
\* page ends the loop, a full one moves the cursor on.
ReceivePage ==
    /\ pc = "waiting"
    /\ LET collections ==
               query_content_detail_by_interval(interval, collection, cursor).collections
       IN  /\ all_results' = all_results \o collections
           /\ IF IsShortPage(collections)
              THEN /\ pc' = "returned"
                   /\ UNCHANGED cursor
              ELSE /\ cursor' = cursor + CursorStep
                   /\ pc' = "paging"
    /\ UNCHANGED <<collection, requests, intervalvars, jobvars, imagevars, textvars>>

NextPaging ==
    \/ GetAllContentDetails
    \/ SendRequest
    \/ ReceivePage

SpecPaging == InitPaging /\ [][NextPaging]_vars

\* The loop waits for nothing but the server's answers, which come.
FairSpecPaging == InitPaging /\ [][NextPaging]_vars /\ WF_vars(NextPaging)

---------------------------------------------------------------------------
(* get_overview jobs spawned by the web endpoints, run by workers that     *)
(* share the overview cache.                                               *)

NumCalls == 2
NumDois == 2

\* retries=3 of the function's decorator
Retries == 3

Dois == 1..NumDois
Calls == 1..NumCalls

\* The two functions of the jobs.
Functions == {"get_overview", "retrieve_article"}

\* cache.get(doi) of a DOI that has no entry
None == <<>>

\* overview.html of the article with the given DOI
OverviewHtml(d) == <<d>>

\* Article.from_doi(doi)
ArticleOf(d) == <<d>>

IdleCall == [fn |-> "none", pc |-> "idle", doi |-> 0, cached |-> None, attempts |-> 0,
             result |-> None]

InitOverview ==
    /\ image_list = <<>>
    /\ new_image_list = <<>>
    /\ candidates = <<>>
    /\ parts = <<>>
    /\ last = NoMerge
    /\ merges = 0
    /\ ordered_image_list = <<>>
    /\ order_src = <<>>
    /\ NoText
    /\ interval = <<>>
    /\ valid = "none"
    /\ collection = <<>>
    /\ cursor = 0
    /\ all_results = <<>>
    /\ requests = <<>>
    /\ overview_cache = [d \in Dois |-> None]
    /\ article_cache = [d \in Dois |-> None]
    /\ calls = [c \in Calls |-> IdleCall]
    /\ retrieved = [f \in Functions |-> [d \in Dois |-> 0]]
    /\ generated = [d \in Dois |-> 0]
    /\ pc = "jobs"

\* get_overview.spawn(doi=doi)
SpawnOverview(c, d) ==
    /\ pc = "jobs"
    /\ calls[c].pc = "idle"
    /\ calls' = [calls EXCEPT ![c] =
            [IdleCall EXCEPT !.fn = "get_overview", !.pc = "spawned", !.doi = d]]
    /\ UNCHANGED <<overview_cache, article_cache, retrieved, generated, pc>>
    /\ UNCHANGED <<intervalvars, pagingvars, imagevars, textvars>>

\* cached_overview_html = overview_cache.get(doi), and the return of a
\* cached overview.
CacheGet(c) ==
    /\ calls[c].fn = "get_overview"
    /\ calls[c].pc = "spawned"
    /\ LET cached_overview_html == overview_cache[calls[c].doi]
       IN  calls' = [calls EXCEPT ![c] =
                IF cached_overview_html # None
                THEN [@ EXCEPT !.pc = "done", !.cached = cached_overview_html,
                               !.result = cached_overview_html]
                ELSE [@ EXCEPT !.pc = "miss", !.cached = None]]
    /\ UNCHANGED <<overview_cache, article_cache, retrieved, generated, pc>>
    /\ UNCHANGED <<intervalvars, pagingvars, imagevars, textvars>>

\* article = Article.from_doi(doi)
ArticleFromDoi(c) ==
    /\ calls[c].fn = "get_overview"
    /\ calls[c].pc = "miss"
    /\ retrieved' = [retrieved EXCEPT !["get_overview"][calls[c].doi] = @ + 1]
    /\ calls' = [calls EXCEPT ![c].pc = "article"]
    /\ UNCHANGED <<overview_cache, article_cache, generated, pc>>
    /\ UNCHANGED <<intervalvars, pagingvars, imagevars, textvars>>

\* overview = article.get_overview(save_images_to_tempfiles=False)
GenerateOverview(c) ==
    /\ calls[c].fn = "get_overview"
    /\ calls[c].pc = "article"
    /\ generated' = [generated EXCEPT ![calls[c].doi] = @ + 1]
    /\ calls' = [calls EXCEPT ![c].pc = "overview"]
    /\ UNCHANGED <<overview_cache, article_cache, retrieved, pc>>
    /\ UNCHANGED <<intervalvars, pagingvars, imagevars, textvars>>

\* overview_cache[doi] = overview.html; return overview.html
CacheSet(c) ==
    /\ calls[c].fn = "get_overview"
    /\ calls[c].pc = "overview"
    /\ overview_cache' = [overview_cache EXCEPT ![calls[c].doi] = OverviewHtml(calls[c].doi)]
    /\ calls' = [calls EXCEPT ![c].pc = "done", ![c].result = OverviewHtml(calls[c].doi)]
    /\ UNCHANGED <<article_cache, retrieved, generated, pc>>
    /\ UNCHANGED <<intervalvars, pagingvars, imagevars, textvars>>

\* retrieve_article is called for a DOI.
SpawnRetrieveArticle(c, d) ==
    /\ pc = "jobs"
    /\ calls[c].pc = "idle"
    /\ calls' = [calls EXCEPT ![c] =
            [IdleCall EXCEPT !.fn = "retrieve_article", !.pc = "spawned", !.doi = d]]
    /\ UNCHANGED <<overview_cache, article_cache, retrieved, generated, pc>>
    /\ UNCHANGED <<intervalvars, pagingvars, imagevars, textvars>>

\* cached_article = article_cache.get(doi), and the return of a cached
\* article.
ArticleCacheGet(c) ==
    /\ calls[c].fn = "retrieve_article"
    /\ calls[c].pc = "spawned"
    /\ LET cached_article == article_cache[calls[c].doi]
       IN  calls' = [calls EXCEPT ![c] =
                IF cached_article # None
                THEN [@ EXCEPT !.pc = "done", !.cached = cached_article,
                               !.result = cached_article]
                ELSE [@ EXCEPT !.pc = "miss", !.cached = None]]
    /\ UNCHANGED <<overview_cache, article_cache, retrieved, generated, pc>>
    /\ UNCHANGED <<intervalvars, pagingvars, imagevars, textvars>>

\* retrieve_article's article = Article.from_doi(doi)
RetrieveFromDoi(c) ==
    /\ calls[c].fn = "retrieve_article"
    /\ calls[c].pc = "miss"
    /\ retrieved' = [retrieved EXCEPT !["retrieve_article"][calls[c].doi] = @ + 1]
    /\ calls' = [calls EXCEPT ![c].pc = "article"]
    /\ UNCHANGED <<overview_cache, article_cache, generated, pc>>
    /\ UNCHANGED <<intervalvars, pagingvars, imagevars, textvars>>

\* article_cache[doi] = article; return article
ArticleCacheSet(c) ==
    /\ calls[c].fn = "retrieve_article"
    /\ calls[c].pc = "article"
    /\ article_cache' = [article_cache EXCEPT ![calls[c].doi] = ArticleOf(calls[c].doi)]
    /\ calls' = [calls EXCEPT ![c].pc = "done", ![c].result = ArticleOf(calls[c].doi)]
    /\ UNCHANGED <<overview_cache, retrieved, generated, pc>>
    /\ UNCHANGED <<intervalvars, pagingvars, imagevars, textvars>>

\* An exception in the retrieval or in the generation: the function is run
\* again from its first line, up to Retries times.
RetryOverview(c) ==
    /\ calls[c].pc \in {"miss", "article"}
    /\ calls' = [calls EXCEPT ![c] =
            IF @.attempts < Retries
            THEN [@ EXCEPT !.pc = "spawned", !.attempts = @ + 1]
            ELSE [@ EXCEPT !.pc = "failed"]]
    /\ UNCHANGED <<overview_cache, article_cache, retrieved, generated, pc>>
    /\ UNCHANGED <<intervalvars, pagingvars, imagevars, textvars>>

NextOverview ==
    \/ \E c \in Calls, d \in Dois : SpawnOverview(c, d)
    \/ \E c \in Calls : CacheGet(c)
    \/ \E c \in Calls : ArticleFromDoi(c)
    \/ \E c \in Calls : GenerateOverview(c)
    \/ \E c \in Calls : CacheSet(c)
    \/ \E c \in Calls, d \in Dois : SpawnRetrieveArticle(c, d)
    \/ \E c \in Calls : ArticleCacheGet(c)
    \/ \E c \in Calls : RetrieveFromDoi(c)
    \/ \E c \in Calls : ArticleCacheSet(c)
    \/ \E c \in Calls : RetryOverview(c)

SpecOverview == InitOverview /\ [][NextOverview]_vars

---------------------------------------------------------------------------
(* Reading order (checked under Spec).                                     *)

\* C11: image_number follows reading order: of two images of one page the
\* one placed higher (smaller top) has the smaller image_number, and every
\* image of page p has a smaller number than every image of page p + 1,
\* for the records that the extractor and the splicer produce.
C11_ReadingOrder ==
    pc = "ordered" =>
        \A i, j \in 1..Len(ordered_image_list) :
            LET a == ordered_image_list[i]
                b == ordered_image_list[j]
            IN  /\ (a.page_number = b.page_number /\ a.top < b.top)
                       => a.image_number < b.image_number
                /\ a.page_number + 1 = b.page_number
                       => a.image_number < b.image_number

---------------------------------------------------------------------------
(* The label associator (checked under SpecLabels).                        *)

\* The rows of the line table on the image's page or the page after it.
CandidateRows ==
    {k \in 1..Len(lines) :
        lines[k].page_number \in {image.page_number, image.page_number + 1}}

\* The words of row k as they stand in its text, and lowered.
WordsOf(k) == split(lines[k].text)
LoweredWordsOf(k) == [i \in 1..Len(WordsOf(k)) |-> lower(WordsOf(k)[i])]

\* The indicator tokens: figure, fig, fig.
IndicatorTokens ==
    { <<"f", "i", "g", "u", "r", "e">>, <<"f", "i", "g">>, <<"f", "i", "g", ".">> }

\* The first two of the alphanumeric characters of w.
FirstTwoAlnum(w) ==
    LET a == SelectSeq(w, isalnum)
    IN  [i \in 1..Min2(2, Len(a)) |-> a[i]]

\* The candidates returned for word i (counted from 0) of row k.
CandidatesAt(k, i) ==
    {c \in 1..Len(labels) :
        labels[c].line_number = lines[k].line_number /\ labels[c].word_number = i}

\* Word i of row k, not the last of its row, is an indicator token.
IndicatorOccurrence(k, i) ==
    /\ k \in CandidateRows
    /\ i \in 0..(Len(WordsOf(k)) - 2)
    /\ LoweredWordsOf(k)[i + 1] \in IndicatorTokens

\* C12 as stated: each indicator word at position i that is not the last of
\* its line gives exactly one candidate, with word_number i, the line's
\* line_number and page_number, and as label the alphanumeric characters of
\* word i + 1 of the line's text cut to two.
C12_LabelOfNextWordAsStated ==
    pc = "labelled" =>
        \A k \in 1..Len(lines) : \A i \in 0..(Len(WordsOf(k)) - 1) :
            IndicatorOccurrence(k, i) =>
                /\ Cardinality(CandidatesAt(k, i)) = 1
                /\ \A c \in CandidatesAt(k, i) :
                      /\ labels[c].page_number = lines[k].page_number
                      /\ labels[c].label = FirstTwoAlnum(WordsOf(k)[i + 2])

\* C12: each indicator word at position i that is not the last of its line
\* gives exactly one candidate, with word_number i, the line's line_number
\* and page_number, and as label the alphanumeric characters of word i + 1
\* of the lowered text cut to two; an indicator word that is the last of
\* its line gives none.
C12_LabelOfNextWord ==
    pc = "labelled" =>
        \A k \in 1..Len(lines) : \A i \in 0..(Len(WordsOf(k)) - 1) :
            /\ IndicatorOccurrence(k, i) =>
                /\ Cardinality(CandidatesAt(k, i)) = 1
                /\ \A c \in CandidatesAt(k, i) :
                      /\ labels[c].page_number = lines[k].page_number
                      /\ labels[c].label = FirstTwoAlnum(LoweredWordsOf(k)[i + 2])
            /\ i = Len(WordsOf(k)) - 1 => CandidatesAt(k, i) = {}

\* Two lines, one with an indicator before a word with capitals, one with
\* an indicator as its last word: one candidate.
C12_Witness ==
    /\ pc = "labelled"
    /\ Len(labels) = 1
    /\ labels[1].label = <<"s", "1">>
    /\ \E k \in CandidateRows : lines[k].text = join(<<W_see, W_fig>>)

\* The row and the word a candidate was made from.
RowOf(c) == labels[c].line_number + 1
WordOf(c) == LoweredWordsOf(RowOf(c))[labels[c].word_number + 1]

\* C13 as stated: a candidate is produced only at a word that is, case
\* aside, one of figure, fig, fig.
C13_OnlyAtIndicatorTokensAsStated ==
    pc = "labelled" =>
        \A c \in 1..Len(labels) :
            /\ RowOf(c) \in 1..Len(lines)
            /\ labels[c].word_number + 1 \in 1..Len(WordsOf(RowOf(c)))
            /\ WordOf(c) \in IndicatorTokens

\* C13: a candidate is produced only at a word whose alphanumeric
\* characters, lowered, spell figure or fig; a line whose words hold an
\* indicator only inside a longer word, or none, gives no candidate.
C13_OnlyAtIndicatorWords ==
    pc = "labelled" =>
        /\ \A c \in 1..Len(labels) :
              /\ RowOf(c) \in 1..Len(lines)
              /\ labels[c].word_number + 1 \in 1..Len(WordsOf(RowOf(c)))
              /\ SelectSeq(WordOf(c), isalnum) \in
                    { <<"f", "i", "g", "u", "r", "e">>, <<"f", "i", "g">> }
        /\ \A k \in 1..Len(lines) :
              lines[k].text \in {join(<<W_figures, W_one>>), join(<<W_configure, W_one>>),
                                 join(<<W_see>>)}
                  => \A c \in 1..Len(labels) : RowOf(c) # k

\* A candidate at the word "(fig", beside a line with "figures 1:".
C13_Witness ==
    /\ pc = "labelled"
    /\ Len(labels) = 1
    /\ WordOf(1) = W_open_fig
    /\ \E k \in CandidateRows : lines[k].text = join(<<W_figures, W_one>>)

\* Twice the centre of row k.
TwiceCentre(k) == lines[k].top + lines[k].bottom

\* The gap in halves between a point at c halves and the image.
GapInHalves(c) ==
    IF 2 * image.top <= c /\ c <= 2 * image.bottom
    THEN 0
    ELSE Min2(abs(c - 2 * image.top), abs(c - 2 * image.bottom))

\* C14: with c the centre of the line, the distance of a line to an image
\* is 0 if and only if top <= c <= bottom of the image, and otherwise the
\* smaller of |c - top| and |c - bottom|: the gap between c and the nearest
\* edge of the image, also when c is on an edge.
C14_Distance ==
    pc = "measured" =>
        LET c == TwiceCentre(distance.line)
            d == distance.value
        IN  /\ ~d.nan
            /\ d.halves = 0 <=> (2 * image.top <= c /\ c <= 2 * image.bottom)
            /\ ~(2 * image.top <= c /\ c <= 2 * image.bottom)
                  => d.halves = Min2(abs(c - 2 * image.top), abs(c - 2 * image.bottom))
            /\ d.halves = GapInHalves(c)

\* The centre of the line is on the top edge of the image.
C14_Witness ==
    /\ pc = "measured"
    /\ TwiceCentre(distance.line) = 2 * image.top
    /\ distance.value = Float(0)

\* The page of the image has a line.
OwnPageHasLines == \E k \in 1..Len(lines) : lines[k].page_number = image.page_number

\* Twice the largest bottom of the lines of the image's page.
TwiceH ==
    LET own == {k \in 1..Len(lines) : lines[k].page_number = image.page_number}
    IN  2 * (CHOOSE b \in {lines[k].bottom : k \in own} :
                \A k \in own : lines[k].bottom <= b)

\* C15: a candidate of a line of page p + 1 has the distance of the centre
\* of the line moved down by H, the largest bottom of the lines of page p,
\* and reports the line's own page_number and line_number; a candidate of a
\* line of page p has the distance of the centre as it is.
C15_NextPageShift ==
    (pc = "labelled" /\ OwnPageHasLines) =>
        \A c \in 1..Len(labels) :
            LET k == RowOf(c)
            IN  /\ labels[c].page_number = lines[k].page_number
                /\ labels[c].line_number = lines[k].line_number
                /\ ~labels[c].distance.nan
                /\ lines[k].page_number = image.page_number + 1
                      => labels[c].distance.halves = GapInHalves(TwiceCentre(k) + TwiceH)
                /\ lines[k].page_number = image.page_number
                      => labels[c].distance.halves = GapInHalves(TwiceCentre(k))

\* A candidate of the next page, the image's page having two lines of which
\* the second reaches lower, and a candidate of the image's page.
C15_Witness ==
    /\ pc = "labelled"
    /\ Len(lines) = 3
    /\ lines[1].page_number = image.page_number
    /\ lines[2].page_number = image.page_number
    /\ lines[1].bottom < lines[2].bottom
    /\ lines[3].page_number = image.page_number + 1
    /\ Len(labels) = 2
    /\ labels[2].page_number = image.page_number + 1
    /\ labels[2].distance.halves > 0

\* C16: the distance of every candidate is a number >= 0, also when the
\* image's page has no line and the page after it has indicator lines.
C16_DistanceIsANumber ==
    pc = "labelled" =>
        \A c \in 1..Len(labels) :
            ~labels[c].distance.nan /\ labels[c].distance.halves >= 0

\* C17: every candidate comes from a line of the image's page or of the
\* page after it.
C17_OwnOrNextPage ==
    pc = "labelled" =>
        \A c \in 1..Len(labels) :
            /\ labels[c].page_number \in {image.page_number, image.page_number + 1}
            /\ RowOf(c) \in CandidateRows

\* Indicator lines on page p + 1 and on page p + 2: one candidate.
C17_Witness ==
    /\ pc = "labelled"
    /\ Len(labels) = 1
    /\ labels[1].page_number = image.page_number + 1
    /\ \E k \in 1..Len(lines) :
          /\ lines[k].page_number = image.page_number + 2
          /\ lines[k].text = join(<<W_Fig, W_one>>)

\* The tokens the strip-and-truncate step is tried on: the strings of up to
\* MaxToken characters over a letter, a capital, a digit and a colon.
MaxToken == 3
TokenUniverse ==
    UNION {[1..n -> {"a", "S", "1", ":"}] : n \in 0..MaxToken}

\* Every character of w is alphanumeric.
AllAlnum(w) == \A i \in 1..Len(w) : isalnum(w[i])

\* C19: every label has at most 2 characters, all alphanumeric, and the
\* strip-and-truncate step returns unchanged a token that is alphanumeric
\* and at most 2 characters long.
C19_ShortAlnumLabels ==
    pc = "labelled" =>
        /\ \A c \in 1..Len(labels) :
              /\ Len(labels[c].label) <= 2
              /\ AllAlnum(labels[c].label)
              /\ strip_and_truncate(labels[c].label) = labels[c].label
        /\ \A t \in TokenUniverse :
              /\ (AllAlnum(t) /\ Len(t) <= 2) => strip_and_truncate(t) = t
              /\ strip_and_truncate(strip_and_truncate(t)) = strip_and_truncate(t)

\* A label cut from a longer word, and a label of one character.
C19_Witness ==
    /\ pc = "labelled"
    /\ \E a, b \in 1..Len(labels) :
          /\ labels[a].label = <<"s", "1">>
          /\ WordsOf(RowOf(a))[labels[a].word_number + 2] = W_S12
          /\ Len(labels[b].label) = 1

---------------------------------------------------------------------------
(* The text stages (checked under SpecText).                               *)

\* No line of the image's page or of the page after it has an indicator
\* word followed by another word.
NoIndicatorBeforeAWord ==
    \A k \in CandidateRows : \A i \in 1..(Len(WordsOf(k)) - 1) :
        SelectSeq(LoweredWordsOf(k)[i], isalnum) \notin
            { <<"f", "i", "g", "u", "r", "e">>, <<"f", "i", "g">> }

\* C18: when no line of the image's page or of the page after it has an
\* indicator word followed by another word, the labels are the empty list,
\* the run goes on without an error, and the image carries an empty
\* candidate_labels.
C18_NoCandidatesNoError ==
    (pc \in {"KeyError", "found"} /\ NoIndicatorBeforeAWord) =>
        /\ pc = "found"
        /\ labels = <<>>
        /\ image.candidate_labels = <<>>

\* The words that went into line n, as positions of the word table.
WordsOfLine(n) ==
    {k \in 1..Len(words) :
        /\ words[k].page_number = lines[n].page_number
        /\ words[k].top = lines[n].top
        /\ words[k].bottom = lines[n].bottom}

\* txt is the texts of the words at the positions of order with one blank
\* between each two: its words are those texts, it neither begins nor ends
\* with a blank, and no two blanks are side by side.
JoinedInOrder(txt, order) ==
    /\ split(txt) = [m \in 1..Len(order) |-> words[order[m]].text]
    /\ txt # <<>> /\ txt[1] # " " /\ txt[Len(txt)] # " "
    /\ \A i \in 1..(Len(txt) - 1) : ~(txt[i] = " " /\ txt[i + 1] = " ")

\* C20: two words are in the same line if and only if their page_number,
\* top and bottom are identical, so every word is in exactly one line, and
\* the text of a line is its words in ascending x0, joined by single blanks.
C20_LinesOfIdenticalSpans ==
    pc = "lines" =>
        /\ \A k \in 1..Len(words) :
              Cardinality({n \in 1..Len(lines) : k \in WordsOfLine(n)}) = 1
        /\ \A n, m \in 1..Len(lines) :
              n # m => <<lines[n].page_number, lines[n].top, lines[n].bottom>>
                       # <<lines[m].page_number, lines[m].top, lines[m].bottom>>
        /\ \A n \in 1..Len(lines) :
              \E order \in [1..Cardinality(WordsOfLine(n)) -> WordsOfLine(n)] :
                  /\ \A a, b \in DOMAIN order : a # b => order[a] # order[b]
                  /\ \A a, b \in DOMAIN order :
                        a < b => words[order[a]].x0 <= words[order[b]].x0
                  /\ JoinedInOrder(lines[n].text, order)

\* Three words: two of one span, the one further right first in the table,
\* and one with the same top and another bottom.
C20_Witness ==
    /\ pc = "lines"
    /\ Len(words) = 3
    /\ Len(lines) = 2
    /\ GroupKey(words[1]) = GroupKey(words[2])
    /\ words[1].x0 > words[2].x0
    /\ words[1].text # words[2].text
    /\ words[3].page_number = words[1].page_number
    /\ words[3].top = words[1].top
    /\ words[3].bottom # words[1].bottom

\* The key of line n.
LineKey(n) == <<lines[n].page_number, lines[n].top, lines[n].bottom>>

\* C21: the line_number values are unique and strictly increasing along
\* the lines sorted ascending by (page_number, top, bottom): they are the
\* integers 0..m-1 for m distinct (page_number, top, bottom) groups.
C21_LineNumbers ==
    pc = "lines" =>
        LET m == Cardinality({<<words[k].page_number, words[k].top, words[k].bottom>> :
                                 k \in 1..Len(words)})
        IN  /\ Len(lines) = m
            /\ {lines[n].line_number : n \in 1..Len(lines)} = 0..(m - 1)
            /\ \A a, b \in 1..Len(lines) :
                  /\ a # b => lines[a].line_number # lines[b].line_number
                  /\ lines[a].line_number < lines[b].line_number
                        <=> \/ LineKey(a)[1] < LineKey(b)[1]
                            \/ LineKey(a)[1] = LineKey(b)[1] /\ LineKey(a)[2] < LineKey(b)[2]
                            \/ /\ LineKey(a)[1] = LineKey(b)[1]
                               /\ LineKey(a)[2] = LineKey(b)[2]
                               /\ LineKey(a)[3] < LineKey(b)[3]

\* Three lines from three words given in descending order of their keys.
C21_Witness ==
    /\ pc = "lines"
    /\ Len(lines) = 3
    /\ words[1].page_number = 2
    /\ words[2].page_number = 1 /\ words[3].page_number = 1
    /\ words[2].top = words[3].top
    /\ words[2].bottom > words[3].bottom

---------------------------------------------------------------------------
(* The stages and their inputs (checked under Spec).                       *)

\* C22: each stage leaves its input as it was: after splice_images the
\* list it was given and its records are unchanged, and after order_images
\* the list it was given and its records are unchanged, no record having
\* gained an image_number.
C22_InputsUnchanged ==
    [][/\ pc # "extract" => image_list' = image_list
       /\ (pc = "spliced" /\ pc' = "ordered") =>
             /\ new_image_list' = new_image_list
             /\ \A k \in 1..Len(new_image_list') :
                   "image_number" \notin DOMAIN new_image_list'[k]]_vars

---------------------------------------------------------------------------
(* The order and the labels of the candidates (checked under SpecLabels).  *)

\* C25: the candidates are in scan order: those of the lines of the
\* image's page, in the order of the lines in the table, before those of
\* the lines of the next page, and those of one line in ascending
\* word_number; they are not sorted by distance.
C25_ScanOrder ==
    pc = "labelled" =>
        \A c, d \in 1..Len(labels) :
            c < d =>
                /\ labels[c].page_number = image.page_number + 1
                      => labels[d].page_number = image.page_number + 1
                /\ labels[c].page_number = labels[d].page_number
                      => RowOf(c) <= RowOf(d)
                /\ RowOf(c) = RowOf(d)
                      => labels[c].word_number < labels[d].word_number

\* The line of the next page stands first in the table and is nearer to
\* the image; its candidate comes second.
C25_Witness ==
    /\ pc = "labelled"
    /\ Len(labels) = 2
    /\ RowOf(1) > RowOf(2)
    /\ labels[1].page_number = image.page_number
    /\ labels[2].page_number = image.page_number + 1
    /\ labels[2].distance.halves < labels[1].distance.halves
    /\ ~labels[2].distance.nan

\* C29: every candidate has a label that is not empty: an indicator word
\* before a word without an alphanumeric character gives no candidate.
C29_LabelsNotEmpty ==
    pc = "labelled" => \A c \in 1..Len(labels) : labels[c].label # <<>>

\* C29 as it holds: a candidate is produced also when the word after the
\* indicator has no alphanumeric character, and its label is then empty;
\* the label of a candidate is empty in that case only.
C29_EmptyLabelKept ==
    pc = "labelled" =>
        /\ \A c \in 1..Len(labels) :
              labels[c].label = <<>>
                  <=> \A i \in 1..Len(WordsOf(RowOf(c))[labels[c].word_number + 2]) :
                         ~isalnum(WordsOf(RowOf(c))[labels[c].word_number + 2][i])
        /\ \A k \in CandidateRows : \A i \in 0..(Len(WordsOf(k)) - 2) :
              (LoweredWordsOf(k)[i + 1] \in IndicatorTokens
                  /\ SelectSeq(WordsOf(k)[i + 2], isalnum) = <<>>)
                  => \E c \in CandidatesAt(k, i) : labels[c].label = <<>>

\* The line "fig -" has given a candidate.
C29_Witness ==
    /\ pc = "labelled"
    /\ \E c \in 1..Len(labels) :
          /\ lines[RowOf(c)].text = join(<<W_fig, W_dash>>)
          /\ labels[c].label = <<>>

---------------------------------------------------------------------------
(* The result of splice_images (checked under Spec).                       *)

\* Two images of lst are a vertical candidate pair.
VerticalPairIn(lst) ==
    \E a, b \in 1..Len(lst) : a # b /\ MeetsVertically(lst[a], lst[b])

\* Two images of lst are a horizontal candidate pair.
HorizontalPairIn(lst) ==
    \E a, b \in 1..Len(lst) : a # b /\ MeetsHorizontally(lst[a], lst[b])

\* C26 as stated: the list returned by splice_images holds no vertical and
\* no horizontal candidate pair, also after a horizontal merge whose new
\* width matches a tile above or below.
C26_FullyConsolidated ==
    pc = "spliced" =>
        ~VerticalPairIn(new_image_list) /\ ~HorizontalPairIn(new_image_list)

\* C26 as it holds: the list returned holds no horizontal candidate pair,
\* and no vertical candidate pair unless a horizontal merge was made.
C26_HorizontallyConsolidated ==
    pc = "spliced" =>
        /\ ~HorizontalPairIn(new_image_list)
        /\ last.kind # "horizontal" => ~VerticalPairIn(new_image_list)

\* A horizontal merge has made an image as wide as the tile below it: the
\* two are returned as they are.
C26_Witness ==
    /\ pc = "spliced"
    /\ last.kind = "horizontal"
    /\ Len(new_image_list) = 2
    /\ new_image_list[2] = last.out
    /\ MeetsVertically(new_image_list[1], new_image_list[2])

\* C27: the merged height is the sum of the heights of the two tiles of a
\* vertical splice, the merged width the sum of the widths of the two tiles
\* of a horizontal splice.
C27_ExtentsAdded ==
    /\ last.kind = "vertical" => last.out.height = last.first.height + last.second.height
    /\ last.kind = "horizontal" => last.out.width = last.first.width + last.second.width

\* C28 as stated: two tiles are merged vertically only if their x0 are
\* within 1 of each other, and horizontally only if their tops are.
C28_AlignedOnOtherAxis ==
    /\ last.kind = "vertical" => abs(last.first.x0 - last.second.x0) < 1
    /\ last.kind = "horizontal" => abs(last.first.top - last.second.top) < 1

\* C28 as it holds: two tiles are merged vertically only if they are on
\* one page, their widths are within 1 and the bottom of the upper is
\* within 1 of the top of the lower; horizontally only if they are on one
\* page, their heights are within 1 and the x1 of the left is within 1 of
\* the x0 of the right.
C28_MergedOnTheSpliceAxis ==
    /\ last.kind = "vertical" =>
          /\ last.first.page_number = last.second.page_number
          /\ abs(last.first.width - last.second.width) < 1
          /\ abs(last.first.bottom - last.second.top) < 1
    /\ last.kind = "horizontal" =>
          /\ last.first.page_number = last.second.page_number
          /\ abs(last.first.height - last.second.height) < 1
          /\ abs(last.first.x1 - last.second.x0) < 1

\* Two tiles of equal width in different columns have been stacked.
C28_Witness ==
    /\ pc = "spliced"
    /\ merges = 1
    /\ last.kind = "vertical"
    /\ last.first.x0 # last.second.x0
    /\ last.first.width = last.second.width
    /\ new_image_list = <<last.out>>

---------------------------------------------------------------------------
(* validate_interval (checked under SpecInterval).                         *)

\* s is a date that exists, written YYYY-MM-DD.
CalendarDate(s) ==
    /\ Len(s) = 10
    /\ \A k \in {1, 2, 3, 4, 6, 7, 9, 10} : IsDigit(s[k])
    /\ s[5] = "-" /\ s[8] = "-"
    /\ LET y == IntOf(s, 1, 4)
           m == IntOf(s, 6, 7)
           d == IntOf(s, 9, 10)
       IN  /\ y >= 1
           /\ m >= 1 /\ m <= 12
           /\ d >= 1
           /\ d <= (IF m = 2
                    THEN (IF (y % 4 = 0 /\ y % 100 # 0) \/ y % 400 = 0 THEN 29 ELSE 28)
                    ELSE IF m \in {4, 6, 9, 11} THEN 30 ELSE 31)

\* s has one of the three accepted forms.
AcceptedForm(s) ==
    \/ /\ Len(s) = 21
       /\ s[11] = "/"
       /\ CalendarDate(SubSeq(s, 1, 10))
       /\ CalendarDate(SubSeq(s, 12, 21))
    \/ /\ Len(s) >= 1
       /\ \A k \in 1..Len(s) : IsDigit(s[k])
    \/ /\ Len(s) >= 2
       /\ \A k \in 1..(Len(s) - 1) : IsDigit(s[k])
       /\ s[Len(s)] = "d"

\* C23: validate_interval(s) returns True exactly when s is two calendar
\* dates YYYY-MM-DD separated by "/", or digits only, or digits followed by
\* the single letter d; it returns False for every other string.
C23_AcceptedForms ==
    pc = "validated" =>
        /\ valid \in {"True", "False"}
        /\ valid = "True" <=> AcceptedForm(interval)

---------------------------------------------------------------------------
(* The paging loop (checked under FairSpecPaging).                         *)

\* The call has returned every article once, in the server's order, after
\* requests at the cursors 0, 100, 200, ... of which only the last brought
\* fewer than 100 articles.
C24_Returned ==
    pc = "returned" =>
        /\ all_results = collection
        /\ Len(requests) = (Len(collection) \div 100) + 1
        /\ \A k \in 1..Len(requests) : requests[k] = 100 * (k - 1)

\* C24: against a server that holds N articles and answers a request at
\* cursor c with the articles c..min(c + 100, N) - 1, the call terminates
\* for every N, returns the N articles once each in the server's order, and
\* requests the cursors 0, 100, 200, ... until the first page of fewer than
\* 100 articles.
C24_PagingTerminates ==
    /\ validate_interval(interval) = "True" => <>(pc = "returned")
    /\ []C24_Returned
    /\ [](validate_interval(interval) = "True" => pc # "ValueError")

\* 200 articles: three requests, the last one answered with no article.
C24_Witness ==
    /\ pc = "returned"
    /\ validate_interval(interval) = "True"
    /\ Len(collection) = 200
    /\ requests = <<0, 100, 200>>
    /\ Len(all_results) = 200

---------------------------------------------------------------------------
(* Overview jobs (checked under SpecOverview).                             *)

\* A call that found an entry in the cache returns that entry.
C30_CachedEntryReturned ==
    \A c \in Calls :
        (calls[c].fn = "get_overview" /\ calls[c].pc = "done" /\ calls[c].cached # None) =>
            calls[c].result = calls[c].cached

\* C30: whatever the interleaving of the get_overview invocations for one
\* DOI, concurrent or retried, the article is retrieved at most once and
\* its overview generated at most once, and a call that finds an entry in
\* the cache returns it.
C30_AtMostOnce ==
    /\ \A d \in Dois : retrieved["get_overview"][d] <= 1 /\ generated[d] <= 1
    /\ C30_CachedEntryReturned

\* Once the cache holds an entry for a DOI, an invocation that starts
\* afterwards returns the entry and retrieves nothing.
C30_LaterCallsUseTheCache ==
    [][\A c \in Calls :
        (calls[c].fn = "get_overview" /\ calls[c].pc = "spawned"
            /\ overview_cache[calls[c].doi] # None
            /\ calls'[c] # calls[c]) =>
                /\ calls'[c].pc = "done"
                /\ calls'[c].result = overview_cache[calls[c].doi]
                /\ retrieved' = retrieved
                /\ generated' = generated]_vars

=============================================================================
